---- MODULE Spec2Model ----
(***************************************************************************)
(* Run-configuration lifecycle of projector-installer: the configuration   *)
(* store (config.ini, run.sh, server secrets), the advisory lock on        *)
(* run.lock and the commands of actions.py that use them.                  *)
(*                                                                         *)
(* Strings are sequences of atoms.  An atom is one character where the     *)
(* program looks at characters ("%", " ", letters whose case matters,      *)
(* digits) and stands for a run of ordinary characters otherwise.          *)
(***************************************************************************)
EXTENDS Integers, Sequences, FiniteSets, TLC

(***************************************************************************)
(* Bounds                                                                  *)
(***************************************************************************)
MaxInode == 3      \* run.lock files in existence at one time
MaxToken == 2      \* distinct tokens generate_token() returns
MaxVer   == 2      \* versions present in the toolbox channel
MaxFds   == 2      \* lock handles one process keeps open
MaxScript == 3     \* lines of a vendor launch script handed to write_run_script
MaxTicks == 2      \* clock ticks in the interval of the timeout decorator
MaxLogSize == 3    \* bytes restrict_log_size lets a log file keep
MaxPort  == 5      \* highest port a configuration uses or a socket listens on
MaxPorts == 2      \* persisted configurations whose ports get_def_port is given
MaxCa    == 6      \* CA keystores an upgrade may put in place
MaxConfigs == 2    \* configurations on the disk when another one is created

(***************************************************************************)
(* str helpers                                                             *)
(***************************************************************************)
LowerChar(ch) ==
    CASE ch = "A" -> "a"
      [] ch = "B" -> "b"
      [] OTHER    -> ch

\* str.lower()
Lower(s) == [i \in 1..Len(s) |-> LowerChar(s[i])]

\* s.find(sub) != -1
Contains(s, sub) ==
    \E i \in 0..(Len(s) - Len(sub)) :
        \A j \in 1..Len(sub) : s[i + j] = sub[j]

\* code point order of the atoms ("A" < "B" < "a" < "b")
Ord(ch) ==
    CASE ch = "A" -> 65
      [] ch = "B" -> 66
      [] ch = "a" -> 97
      [] ch = "b" -> 98
      [] OTHER    -> 0

\* s < t as Python compares str
StrLess(s, t) ==
    \/ \E i \in 1..Len(s) :
          /\ i <= Len(t)
          /\ \A j \in 1..(i - 1) : s[j] = t[j]
          /\ Ord(s[i]) < Ord(t[i])
    \/ /\ Len(s) < Len(t)
       /\ \A j \in 1..Len(s) : s[j] = t[j]

RECURSIVE SortedSeq(_)
\* list(keys); sort()
SortedSeq(S) ==
    IF S = {} THEN << >>
    ELSE LET m == CHOOSE x \in S : \A y \in S \ {x} : StrLess(x, y)
         IN  <<m>> \o SortedSeq(S \ {m})

Digit == <<"0", "1", "2", "3", "4", "5", "6", "7", "8", "9">>

\* str(int) for 0..99
IntToStr(n) ==
    IF n < 10 THEN <<Digit[n + 1]>>
    ELSE <<Digit[(n \div 10) + 1], Digit[(n % 10) + 1]>>

IsDigit(ch) == \E d \in 1..10 : Digit[d] = ch

DigitVal(ch) == (CHOOSE d \in 1..10 : Digit[d] = ch) - 1

IsInt(s) == Len(s) > 0 /\ \A i \in 1..Len(s) : IsDigit(s[i])

RECURSIVE StrToInt(_)
\* int(str)
StrToInt(s) ==
    IF Len(s) = 0 THEN 0
    ELSE 10 * StrToInt(SubSeq(s, 1, Len(s) - 1)) + DigitVal(s[Len(s)])

(***************************************************************************)
(* configparser                                                            *)
(***************************************************************************)
RECURSIVE LStrip(_)
LStrip(s) == IF Len(s) > 0 /\ s[1] = " " THEN LStrip(Tail(s)) ELSE s

RECURSIVE RStrip(_)
RStrip(s) ==
    IF Len(s) > 0 /\ s[Len(s)] = " " THEN RStrip(SubSeq(s, 1, Len(s) - 1)) ELSE s

\* the parser strips the value it reads from "key = value"
Strip(s) == RStrip(LStrip(s))

RECURSIVE InterpolateOk(_)
\* BasicInterpolation accepts "%%" and rejects every other "%"
InterpolateOk(s) ==
    IF Len(s) = 0 THEN TRUE
    ELSE IF s[1] # "%" THEN InterpolateOk(Tail(s))
    ELSE IF Len(s) >= 2 /\ s[2] = "%" THEN InterpolateOk(SubSeq(s, 3, Len(s)))
    ELSE FALSE

RECURSIVE Interpolate(_)
\* BasicInterpolation.before_get on an accepted value: "%%" becomes "%"
Interpolate(s) ==
    IF Len(s) = 0 THEN << >>
    ELSE IF s[1] # "%" THEN <<s[1]>> \o Interpolate(Tail(s))
    ELSE <<"%">> \o Interpolate(SubSeq(s, 3, Len(s)))

\* load_config builds ConfigParser() with the default BasicInterpolation
ReadValueOk(raw) == InterpolateOk(Strip(raw))

ReadValue(raw) == Interpolate(Strip(raw))

(***************************************************************************)
(* RunConfig                                                               *)
(***************************************************************************)
TESTED     == <<"tested">>
NOT_TESTED == <<"not_tested">>
UNKNOWN    == <<"unknown">>
HOST_ALL   == <<"*">>

\* RunConfig.is_secure
is_secure(c) == c.token # << >>

\* RunConfig.is_password_protected
is_password_protected(c) == c.password # << >>

BoolToStr(b) == IF b THEN <<"True">> ELSE <<"False">>

\* RawConfigParser.getboolean accepts the spellings of BOOLEAN_STATES
IsBool(s) == s \in {<<"True">>, <<"False">>}

StrToBool(s) == s = <<"True">>

(***************************************************************************)
(* config.ini: the keys save_config writes, each with the value as it is   *)
(* written to the file                                                     *)
(***************************************************************************)
IniKeys(c) ==
    {"IDE.PATH", "IDE.USE_SEPARATE_CONFIG", "PROJECTOR.PORT", "PROJECTOR.HOST",
     "UPDATE.CHANNEL"}
    \cup (IF is_secure(c) THEN {"SSL.TOKEN"} ELSE {})
    \cup (IF is_secure(c) /\ c.certificate # << >>
          THEN {"SSL.CERTIFICATE_FILE", "SSL.KEY_FILE", "SSL.CHAIN_FILE"} ELSE {})
    \cup (IF is_password_protected(c)
          THEN {"PASSWORDS.PASSWORD", "PASSWORDS.RO_PASSWORD"} ELSE {})
    \cup (IF c.toolbox THEN {"TOOLBOX.TOOLBOX"} ELSE {})
    \cup (IF c.custom_names # << >> THEN {"FQDNS.FQDNS"} ELSE {})

IniText(c) ==
    [k \in IniKeys(c) |->
        CASE k = "IDE.PATH"                -> c.path_to_app
          [] k = "IDE.USE_SEPARATE_CONFIG" -> BoolToStr(c.use_separate_config)
          [] k = "PROJECTOR.PORT"          -> IntToStr(c.projector_port)
          [] k = "PROJECTOR.HOST"          -> c.projector_host
          [] k = "SSL.TOKEN"               -> c.token
          [] k = "SSL.CERTIFICATE_FILE"    -> c.certificate
          [] k = "SSL.KEY_FILE"            -> c.certificate_key
          [] k = "SSL.CHAIN_FILE"          -> c.certificate_chain
          [] k = "PASSWORDS.PASSWORD"      -> c.password
          [] k = "PASSWORDS.RO_PASSWORD"   -> c.ro_password
          [] k = "TOOLBOX.TOOLBOX"         -> <<"True">>
          [] k = "FQDNS.FQDNS"             -> c.custom_names
          [] k = "UPDATE.CHANNEL"          -> c.update_channel]

\* the keys load_config reads
LoadKeys ==
    {"IDE.PATH", "PROJECTOR.PORT", "SSL.TOKEN", "PASSWORDS.PASSWORD",
     "PASSWORDS.RO_PASSWORD", "TOOLBOX.TOOLBOX", "FQDNS.FQDNS",
     "SSL.CERTIFICATE_FILE", "SSL.KEY_FILE", "SSL.CHAIN_FILE", "UPDATE.CHANNEL",
     "PROJECTOR.HOST", "IDE.USE_SEPARATE_CONFIG"}

\* config.get(section, key, fallback=...)
ConfigGet(ini, k, fallback) ==
    IF k \in DOMAIN ini THEN ReadValue(ini[k]) ELSE fallback

\* the IDE.USE_SEPARATE_CONFIG key read back into RunConfig.use_separate_config
LoadUseSeparateConfig(ini) ==
    IF "IDE.USE_SEPARATE_CONFIG" \in DOMAIN ini
    THEN StrToBool(ReadValue(ini["IDE.USE_SEPARATE_CONFIG"]))
    ELSE FALSE

\* load_config returns; it raises when config.ini lacks a mandatory key or
\* holds a value the parser cannot interpolate or convert
LoadOk(ini) ==
    /\ "IDE.PATH" \in DOMAIN ini
    /\ "PROJECTOR.PORT" \in DOMAIN ini
    /\ \A k \in LoadKeys \cap DOMAIN ini : ReadValueOk(ini[k])
    /\ IsInt(ReadValue(ini["PROJECTOR.PORT"]))
    /\ "TOOLBOX.TOOLBOX" \in DOMAIN ini => IsBool(ReadValue(ini["TOOLBOX.TOOLBOX"]))
    /\ "IDE.USE_SEPARATE_CONFIG" \in DOMAIN ini
          => IsBool(ReadValue(ini["IDE.USE_SEPARATE_CONFIG"]))

load_config(ini, config_name) ==
    [name                |-> config_name,
     path_to_app         |-> ConfigGet(ini, "IDE.PATH", << >>),
     use_separate_config |-> LoadUseSeparateConfig(ini),
     projector_port      |-> StrToInt(ConfigGet(ini, "PROJECTOR.PORT", << >>)),
     token               |-> ConfigGet(ini, "SSL.TOKEN", << >>),
     password            |-> ConfigGet(ini, "PASSWORDS.PASSWORD", << >>),
     ro_password         |-> ConfigGet(ini, "PASSWORDS.RO_PASSWORD", << >>),
     toolbox             |-> StrToBool(ConfigGet(ini, "TOOLBOX.TOOLBOX", <<"False">>)),
     custom_names        |-> ConfigGet(ini, "FQDNS.FQDNS", << >>),
     certificate         |-> ConfigGet(ini, "SSL.CERTIFICATE_FILE", << >>),
     certificate_key     |-> ConfigGet(ini, "SSL.KEY_FILE", << >>),
     certificate_chain   |-> ConfigGet(ini, "SSL.CHAIN_FILE", << >>),
     update_channel      |-> ConfigGet(ini, "UPDATE.CHANNEL", UNKNOWN),
     projector_host      |-> ConfigGet(ini, "PROJECTOR.HOST", HOST_ALL)]

(***************************************************************************)
(* run script                                                              *)
(***************************************************************************)
IDEA_RUN_CLASS == <<"com.intellij.idea.Main">>
MPS_MAIN_CLASS == <<"${MAIN_CLASS}">>

\* shlex.quote leaves a string of safe characters alone, token_quote then
\* wraps it in double quotes; any other string comes back in single quotes
SafeChar(ch) == ch # " "

token_quote(token) ==
    IF token = << >> THEN <<"''">>
    ELSE IF \A i \in 1..Len(token) : SafeChar(token[i])
         THEN <<"\"">> \o token \o <<"\"">>
         ELSE <<"'">> \o token \o <<"'">>

launch_script_last_lines_always_ssl(c, main_class) ==
    [t    |-> "launch",
     text |-> << >>,
     props |->
        << <<"-Djdk.attach.allowAttachSelf=true">>,
           <<"-DPORT=">> \o IntToStr(c.projector_port),
           <<"-DclassToLaunch=">> \o main_class,
           <<"-DSSL_PROPERTIES_PATH=">> \o c.name \o <<"/ssl.properties">>,
           <<"ProjectorLauncher">> >>]

launch_script_last_lines(c, main_class) ==
    [t    |-> "launch",
     text |-> << >>,
     props |->
        << <<"-Djdk.attach.allowAttachSelf=true">>,
           <<"-DPORT=">> \o IntToStr(c.projector_port),
           <<"-DclassToLaunch=">> \o main_class >>
        \o (IF c.projector_host # HOST_ALL
            THEN << <<"-DHOST=">> \o c.projector_host >> ELSE << >>)
        \o (IF is_secure(c)
            THEN << <<"-DSSL_PROPERTIES_PATH=">> \o c.name \o <<"/ssl.properties">> >>
            ELSE << >>)
        \o (IF is_password_protected(c)
            THEN << <<"-DHANDSHAKE_TOKEN=">> \o token_quote(c.password),
                    <<"-DRO_HANDSHAKE_TOKEN=">> \o token_quote(c.ro_password) >>
            ELSE << >>)
        \o << <<"ProjectorLauncher">> >>]

\* one line of the vendor launch script: its text and the markers the
\* rewrite looks for in it
SrcLine(text, marks) == [text |-> text, marks |-> marks]

RewriteLine(c, line) ==
    IF "IDE_BIN_HOME" \in line.marks
    THEN [t |-> "bin_home", text |-> c.path_to_app \o <<"/bin">>, props |-> << >>]
    ELSE IF "classpath" \in line.marks
    THEN [t |-> "classpath", text |-> <<"server/*">>, props |-> << >>]
    ELSE IF c.use_separate_config /\ "IDE_PROPERTIES_PROPERTY" \in line.marks
    THEN [t |-> "properties", text |-> c.name \o <<"/idea.properties">>,
          props |-> << >>]
    ELSE IF "IDEA_RUN_CLASS" \in line.marks
    THEN launch_script_last_lines(c, IDEA_RUN_CLASS)
    ELSE IF "MPS_MAIN_CLASS" \in line.marks
    THEN launch_script_last_lines(c, MPS_MAIN_CLASS)
    ELSE [t |-> "copy", text |-> line.text, props |-> << >>]

write_run_script(c, src) == [i \in 1..Len(src) |-> RewriteLine(c, src[i])]

(***************************************************************************)
(* Installed IDEs (the collaborator that supplies path_to_app)             *)
(***************************************************************************)
\* get_app_path(app_name): join(get_apps_dir(), app_name)
get_app_path(app_name) == <<"/apps/">> \o app_name

IDEA_PATH == get_app_path(<<"idea">>)
MPS_PATH  == get_app_path(<<"mps">>)
BAD_PATH  == <<"/nowhere">>

RECURSIVE NormPath(_)
\* the directory a path names: a trailing "/" makes no difference to the
\* file system
NormPath(path) ==
    IF Len(path) > 1 /\ path[Len(path)] = "/"
    THEN NormPath(SubSeq(path, 1, Len(path) - 1)) ELSE path

\* the toolbox channel holds one directory per installed version
ToolboxPath(v) == <<"/toolbox/ch/">> \o IntToStr(v)

ToolboxPaths == {ToolboxPath(v) : v \in 1..MaxVer}

\* get_path_to_toolbox_channel(path) is not None
is_toolbox_path(path) == path \in ToolboxPaths

\* get_path_to_latest_app for a path inside the channel
get_path_to_latest_app(ides) == ToolboxPath(ides.latest)

\* os.path.isdir(path_to_app), ides being the IDE directories on the disk:
\* the installed apps and the newest version in the toolbox channel
isdir(path, ides) ==
    \/ \E a \in ides.apps : NormPath(path) = get_app_path(a)
    \/ \E v \in 1..ides.latest : NormPath(path) = ToolboxPath(v)

\* the vendor launch script found inside an installation
LaunchScript(path) ==
    IF NormPath(path) = MPS_PATH
    THEN << SrcLine(<<"#!/bin/sh">>, {}),
            SrcLine(<<"IDE_BIN_HOME=...">>, {"IDE_BIN_HOME"}),
            SrcLine(<<"-classpath ...">>, {"classpath"}),
            SrcLine(<<"${IDE_PROPERTIES_PROPERTY}">>, {"IDE_PROPERTIES_PROPERTY"}),
            SrcLine(<<"${MAIN_CLASS}">>, {"MPS_MAIN_CLASS"}),
            SrcLine(<<"\"$@\"">>, {}) >>
    ELSE << SrcLine(<<"#!/bin/sh">>, {}),
            SrcLine(<<"IDE_BIN_HOME=...">>, {"IDE_BIN_HOME"}),
            SrcLine(<<"-classpath ...">>, {"classpath"}),
            SrcLine(<<"${IDE_PROPERTIES_PROPERTY}">>, {"IDE_PROPERTIES_PROPERTY"}),
            SrcLine(<<"com.intellij.idea.Main">>, {"IDEA_RUN_CLASS"}),
            SrcLine(<<"\"$@\"">>, {}) >>

(***************************************************************************)
(* Server secrets and the shared CA.  A secret file is recorded with the   *)
(* token it was generated for.                                             *)
(***************************************************************************)
ServerSecretFiles ==
    {"projector.jks", "projector.csr", "projector.crt", "ssl.properties",
     "http_server.csr", "http_server.crt", "http_server.key"}

\* The files of the ssl directory are recorded with the distinguished name
\* of the CA they belong to: get_ca_dist_name() puts a fresh random token
\* into the name, so that the n-th key pair generated is the CA number n.

\* a check that never finds the CA
is_ca_exist_never(ca) == "ca.jks" \in DOMAIN ca /\ "ca.crt" \in DOMAIN ca /\ FALSE

is_ca_exist(ca) == "ca.jks" \in DOMAIN ca /\ "ca.crt" \in DOMAIN ca

are_exist_server_secrets(sec) == ServerSecretFiles \subseteq DOMAIN sec

\* remove_server_secrets
remove_server_secrets(sec) == [f \in (DOMAIN sec) \ ServerSecretFiles |-> sec[f]]

PutFile(sec, f, token) ==
    [g \in (DOMAIN sec) \cup {f} |-> IF g = f THEN token ELSE sec[g]]

\* get_ca_dist_name: a name no CA file on the disk carries
get_ca_dist_name(ca) ==
    CHOOSE n \in 1..(Cardinality(DOMAIN ca) + 1) : \A f \in DOMAIN ca : ca[f] # n

\* One step of provisioning: an external tool invocation (tool = TRUE) or a
\* file operation of the installer itself.  needs are the files of the ssl
\* directory the invocation reads: the tool exits non-zero without them.
Step(tool, op, file, needs) == [tool |-> tool, op |-> op, file |-> file, needs |-> needs]

\* generate_ca: four check_call invocations.  keytool -genkeypair loads the
\* keystore, refuses to generate a key pair for an alias the keystore already
\* holds, generates the pair and only then writes the keystore.
generate_ca_steps ==
    << Step(TRUE, "genkeypair", "ca.jks", {}),
       Step(FALSE, "store", "ca.jks", {}),
       Step(TRUE, "ca", "ca.crt", {"ca.jks"}),
       Step(TRUE, "ca", "ca.p12", {"ca.jks"}),
       Step(TRUE, "ca", "ca.key", {"ca.p12"}) >>

\* generate_projector_jks, generate_ssl_properties_file, generate_http_cert
server_secret_steps ==
    << Step(FALSE, "remove", "", {}),
       Step(TRUE, "put", "projector.jks", {}),
       Step(TRUE, "put", "projector.csr", {}),
       Step(TRUE, "put", "projector.crt", {"ca.jks"}),
       Step(TRUE, "put", "projector.jks", {"ca.crt"}),
       Step(TRUE, "put", "projector.jks", {}),
       Step(FALSE, "put", "ssl.properties", {}),
       Step(TRUE, "put", "http_server.key", {}),
       Step(TRUE, "put", "http_server.csr", {}),
       Step(TRUE, "put", "http_server.crt", {"ca.crt", "ca.key"}) >>

\* the invocation exits non-zero whatever the health of the tool
ToolRefuses(st, s) ==
    \/ ~(s.needs \subseteq DOMAIN st.ca)
    \/ s.op = "genkeypair" /\ s.file \in DOMAIN st.ca

ApplyStep(st, s, token) ==
    CASE s.op = "genkeypair" -> st
      [] s.op = "store"  ->
            [st EXCEPT !.ca = PutFile(@, s.file, get_ca_dist_name(@))]
      [] s.op = "ca"     ->
            [st EXCEPT !.ca = PutFile(@, s.file,
                                      @[CHOOSE n \in s.needs : TRUE])]
      [] s.op = "remove" -> [st EXCEPT !.sec = remove_server_secrets(@)]
      [] s.op = "put"    -> [st EXCEPT !.sec = PutFile(@, s.file, token)]

RECURSIVE RunSteps(_, _, _, _)
\* runs the steps in order; the fail-th tool invocation raises
\* CalledProcessError, as does one the tool refuses, and nothing after it
\* runs (fail = 0: every tool works)
RunSteps(st, steps, token, fail) ==
    IF steps = << >> THEN [st EXCEPT !.raised = FALSE]
    ELSE LET s == Head(steps) IN
         IF s.tool /\ (fail = 1 \/ ToolRefuses(st, s))
         THEN [st EXCEPT !.raised = TRUE]
         ELSE RunSteps(ApplyStep(st, s, token), Tail(steps), token,
                       IF s.tool THEN fail - 1 ELSE fail)

\* generate_server_secrets(run_config) on the CA files ca and the secret
\* files sec of the configuration
generate_server_secrets(ca, sec, c, fail) ==
    LET steps == (IF is_ca_exist(ca) THEN << >> ELSE generate_ca_steps)
                 \o (IF are_exist_server_secrets(sec) THEN << >>
                     ELSE server_secret_steps)
    IN  RunSteps([ca |-> ca, sec |-> sec, raised |-> FALSE], steps, c.token, fail)

(***************************************************************************)
(* State                                                                   *)
(***************************************************************************)
VARIABLES
    fs,         \* the run-configs directory: configuration name -> its directory
    ca,         \* files present in the shared ssl directory
    latest,     \* newest version installed in the toolbox channel
    apps,       \* names of the IDE directories in the apps directory
    lockOwner,  \* inode of a locked run.lock -> process holding the lock
    proc,       \* process -> the command it runs and how far it got
    run,        \* process -> the IDE session do_run_config started
    last        \* the last call made through the store interface

vars == <<fs, ca, latest, apps, lockOwner, proc, run, last>>

\* the IDE directories on the disk
Ides == [latest |-> latest, apps |-> apps]

\* No session: no log file open, no child process, the default SIGINT
\* disposition.  child is "none", "running", "exited" (not yet waited for)
\* or "joined"; ret is the status wait() returned.
NoRun ==
    [log |-> "none", child |-> "none", childsig |-> "none", ret |-> 0,
     handler |-> FALSE, sigint |-> FALSE, dumped |-> FALSE]

\* the IDEs installed before the first command
AppsAtStart == {<<"idea">>, <<"mps">>}

\* an optional value: << >> or <<v>>
Absent == << >>
Some(v) == <<v>>

\* the n-th token generate_token() returns (alphanumeric characters only)
Tok(n) == <<"tok", IntToStr(n)[1]>>

EmptyFn == [x \in {} |-> x]

\* a configuration directory as mkdir creates it
EmptyDir ==
    [ini |-> Absent, script |-> Absent, props |-> FALSE, sec |-> EmptyFn, lock |-> 0]

DirOf(f, name) == IF name \in DOMAIN f THEN f[name] ELSE EmptyDir

WithDir(f, name, dir) ==
    [n \in (DOMAIN f) \cup {name} |-> IF n = name THEN dir ELSE f[n]]

WithoutDir(f, name) == [n \in (DOMAIN f) \ {name} |-> f[n]]

(***************************************************************************)
(* config_generator.py                                                     *)
(***************************************************************************)
\* a generator that leaves an existing run.sh in place
generate_run_script_keep(dir, c) ==
    IF dir.script # Absent THEN dir
    ELSE [dir EXCEPT !.script = Some(write_run_script(c, LaunchScript(c.path_to_app)))]

\* generate_run_script / make_run_script
generate_run_script(dir, c) ==
    [dir EXCEPT !.script = Some(write_run_script(c, LaunchScript(c.path_to_app)))]

\* save_config(run_config): the files of the configuration and of the ssl
\* directory after the call, and whether the call raised.  forbid_updates_for
\* opens idea.properties inside path_to_app and raises when it is not there.
save_config(f, cafiles, c, ides, fail) ==
    LET d1 == [DirOf(f, c.name) EXCEPT !.ini = Some(IniText(c))]
    IN  IF ~isdir(c.path_to_app, ides)
        THEN [fs |-> WithDir(f, c.name, d1), ca |-> cafiles, raised |-> TRUE]
        ELSE LET d2 == [d1 EXCEPT !.props = @ \/ c.use_separate_config]
                 d3 == generate_run_script(d2, c)
             IN  IF is_secure(c)
                 THEN LET g == generate_server_secrets(cafiles, d3.sec, c, fail)
                      IN  [fs |-> WithDir(f, c.name, [d3 EXCEPT !.sec = g.sec]),
                           ca |-> g.ca, raised |-> g.raised]
                 ELSE [fs |-> WithDir(f, c.name, d3), ca |-> cafiles,
                       raised |-> FALSE]

\* check_run_script raises when run.sh cannot be opened
check_config_ok(f, c, ides) ==
    /\ c.name \in DOMAIN f
    /\ f[c.name].script # Absent
    /\ isdir(c.path_to_app, ides)

\* check_config(run_config)
check_config(f, c) ==
    write_run_script(c, LaunchScript(c.path_to_app)) = f[c.name].script[1]

(***************************************************************************)
(* run_config.py: the store                                                *)
(***************************************************************************)
Loadable(f, n) == f[n].ini # Absent /\ LoadOk(f[n].ini[1])

Loaded(f, n) == load_config(f[n].ini[1], n)

RaisedOutcome == [ok |-> FALSE, res |-> EmptyFn]

RECURSIVE get_run_configs_loop(_, _, _, _)
\* the loop of get_run_configs over one listdir() result; pattern << >>
\* stands for None and for the empty string, which the code treats alike
get_run_configs_loop(f, listing, pattern, res) ==
    IF listing = << >> THEN [ok |-> TRUE, res |-> res]
    ELSE LET config_name == Head(listing) IN
         IF pattern # << >> /\ ~Contains(Lower(config_name), Lower(pattern))
         THEN get_run_configs_loop(f, Tail(listing), pattern, res)
         ELSE IF ~Loadable(f, config_name) THEN RaisedOutcome
         ELSE IF pattern = config_name
         THEN [ok |-> TRUE, res |-> (config_name :> Loaded(f, config_name))]
         ELSE get_run_configs_loop(f, Tail(listing), pattern,
                  (config_name :> Loaded(f, config_name)) @@ res)

RECURSIVE Orders(_)
\* os.listdir returns the entries in arbitrary order
Orders(S) ==
    IF S = {} THEN {<< >>}
    ELSE UNION {{<<x>> \o o : o \in Orders(S \ {x})} : x \in S}

\* get_run_configs(pattern): every outcome some directory order gives
get_run_configs(f, pattern) ==
    {get_run_configs_loop(f, listing, pattern, EmptyFn) : listing \in Orders(DOMAIN f)}

\* get_run_config_names(pattern) for one outcome of get_run_configs
get_run_config_names(outcome) == SortedSeq(DOMAIN outcome.res)

\* a delete that empties the directory and leaves it in place
delete_config_keep_dir(f, config_name) ==
    IF config_name \in DOMAIN f THEN WithDir(f, config_name, EmptyDir) ELSE f

\* delete_config: rmtree(path, ignore_errors=True)
delete_config(f, config_name) == WithoutDir(f, config_name)

\* os.rename(from_path, to_path) raises when from_path is missing or when
\* to_path is an existing directory that is not empty
rename_config_ok(f, from_name, to_name) ==
    /\ from_name \in DOMAIN f
    /\ to_name \in DOMAIN f => to_name = from_name

\* rename_config
rename_config(f, from_name, to_name) ==
    IF from_name = to_name THEN f
    ELSE [n \in ((DOMAIN f) \ {from_name}) \cup {to_name} |->
             IF n = to_name THEN f[from_name] ELSE f[n]]

\* validate_run_config raises ValueError unless this holds
validate_run_config(c, ides) == isdir(c.path_to_app, ides)

(***************************************************************************)
(* The store driven through its interface by one sequential caller:        *)
(* save_config, rename_config, delete_config and check_config applied to   *)
(* a range of run configurations.                                          *)
(***************************************************************************)
ConfigNames == {<<"a">>, <<"A">>, <<"a", "b">>}

\* what get_quick_config / do_auto_add_config build for an installed IDE
BaseConfig(name) ==
    [name                |-> name,
     path_to_app         |-> IDEA_PATH,
     use_separate_config |-> FALSE,
     projector_port      |-> 9,
     token               |-> << >>,
     password            |-> << >>,
     ro_password         |-> << >>,
     toolbox             |-> FALSE,
     custom_names        |-> << >>,
     certificate         |-> << >>,
     certificate_key     |-> << >>,
     certificate_chain   |-> << >>,
     update_channel      |-> NOT_TESTED,
     projector_host      |-> HOST_ALL]

NoCall ==
    [op |-> "none", cfg |-> Absent, name |-> << >>, ok |-> TRUE,
     result |-> FALSE, fresh |-> FALSE]

StoreInit ==
    /\ fs = EmptyFn
    /\ ca = EmptyFn
    /\ latest = 1
    /\ apps = AppsAtStart
    /\ run = EmptyFn
    /\ lockOwner = EmptyFn
    /\ proc = EmptyFn
    /\ last = NoCall

StoreSave(c) ==
    LET r == save_config(fs, ca, c, Ides, 0) IN
    /\ fs' = r.fs
    /\ ca' = r.ca
    /\ last' = [op |-> "save", cfg |-> Some(c), name |-> c.name, ok |-> ~r.raised,
                result |-> FALSE, fresh |-> ~r.raised]
    /\ UNCHANGED <<latest, apps, run, lockOwner, proc>>

StoreRename(from_name, to_name) ==
    /\ IF rename_config_ok(fs, from_name, to_name)
       THEN /\ fs' = rename_config(fs, from_name, to_name)
            /\ last' = [NoCall EXCEPT !.op = "rename", !.name = to_name]
       ELSE /\ fs' = fs
            /\ last' = [NoCall EXCEPT !.op = "rename", !.name = to_name, !.ok = FALSE]
    /\ UNCHANGED <<ca, latest, apps, run, lockOwner, proc>>

StoreDelete(config_name) ==
    /\ fs' = delete_config(fs, config_name)
    /\ last' = [NoCall EXCEPT !.op = "delete", !.name = config_name]
    /\ UNCHANGED <<ca, latest, apps, run, lockOwner, proc>>

\* check_config(c): nothing but the returned value changes
StoreCheck(c) ==
    /\ check_config_ok(fs, c, Ides)
    /\ last' = [op |-> "check", cfg |-> Some(c), name |-> c.name, ok |-> TRUE,
                result |-> check_config(fs, c),
                fresh |-> last.fresh /\ last.cfg = Some(c)]
    /\ UNCHANGED <<fs, ca, latest, apps, run, lockOwner, proc>>

\* Enumeration: three names (one contained in another, two differing in
\* case only), a plain configuration and one whose password holds a "%".
ListConfigs ==
    UNION {{BaseConfig(n),
            [BaseConfig(n) EXCEPT !.password = <<"p", "%">>,
                                  !.ro_password = <<"p", "%">>]} : n \in ConfigNames}

ListNext ==
    \/ \E c \in ListConfigs : StoreSave(c)
    \/ \E a \in ConfigNames, b \in ConfigNames : StoreRename(a, b)
    \/ \E n \in ConfigNames : StoreDelete(n)
    \/ \E c \in ListConfigs : StoreCheck(c)

ListSpec == StoreInit /\ [][ListNext]_vars

\* Files of a configuration: two names; a plain configuration, secure ones
\* for each token, a password that needs quoting, and an MPS installation
\* with a private configuration directory and a listening host.
FileNames == {<<"a">>, <<"A">>}

FileConfigsFor(name) ==
    LET b == BaseConfig(name) IN
    {b}
    \cup {[b EXCEPT !.token = Tok(k)] : k \in 1..MaxToken}
    \cup {[b EXCEPT !.password = <<" ", "p">>, !.ro_password = <<"r">>]}
    \cup {[b EXCEPT !.path_to_app = MPS_PATH, !.use_separate_config = TRUE,
                    !.projector_host = <<"localhost">>]}

FileConfigs == UNION {FileConfigsFor(name) : name \in FileNames}

StoreNext ==
    \/ \E c \in FileConfigs : StoreSave(c)
    \/ \E a \in FileNames, b \in FileNames : StoreRename(a, b)
    \/ \E n \in FileNames : StoreDelete(n)
    \/ \E c \in FileConfigs : StoreCheck(c)

StoreSpec == StoreInit /\ [][StoreNext]_vars

(***************************************************************************)
(* Claims about the store                                                  *)
(***************************************************************************)
LastCfg == last.cfg[1]

\* how often a name occurs in the list get_run_config_names builds
Occurrences(names, n) == Cardinality({i \in 1..Len(names) : names[i] = n})

\* C5: every configuration name appears at most once in get_run_configs(),
\* and right after save_config(c) the name c.name appears exactly once.
C5_SavedNameListedOnce ==
    /\ \A o \in get_run_configs(fs, << >>) :
          o.ok => \A n \in ConfigNames : Occurrences(get_run_config_names(o), n) <= 1
    /\ (last.op = "save" /\ last.ok)
          => \A o \in get_run_configs(fs, << >>) :
                o.ok /\ Occurrences(get_run_config_names(o), last.name) = 1

\* the fields of a RunConfig that have a key in config.ini
PersistedEqual(x, y) ==
    /\ x.path_to_app = y.path_to_app
    /\ x.use_separate_config = y.use_separate_config
    /\ x.projector_port = y.projector_port
    /\ x.projector_host = y.projector_host
    /\ x.token = y.token
    /\ x.certificate = y.certificate
    /\ x.certificate_key = y.certificate_key
    /\ x.certificate_chain = y.certificate_chain
    /\ x.password = y.password
    /\ x.ro_password = y.ro_password
    /\ x.toolbox = y.toolbox
    /\ x.custom_names = y.custom_names
    /\ x.update_channel = y.update_channel

\* C7: round trip: load_config(c.name) after save_config(c) returns a record
\* equal to c in every field that has a persisted key.
C7_RoundTrip ==
    (last.op = "save" /\ last.ok)
        => /\ Loadable(fs, last.name)
           /\ PersistedEqual(Loaded(fs, last.name), LastCfg)

\* C8: check_config(c) is true right after save_config(c) and stays true
\* over further check_config(c) calls; check_config changes no file.
C8_CheckAfterSave ==
    /\ [](/\ (last.op = "save" /\ last.ok)
                => check_config_ok(fs, LastCfg, Ides) /\ check_config(fs, LastCfg)
          /\ (last.op = "check" /\ last.fresh) => last.result)
    /\ [][last'.op = "check" => (fs' = fs /\ ca' = ca)]_vars

C8_Witness ==
    /\ last.op = "check" /\ last.fresh /\ last.result
    /\ is_password_protected(LastCfg)

\* C9: after save_config(c) of a secure c the keystore and ssl.properties
\* exist, ssl.properties carries c.token, and no generated file of an
\* earlier token remains.
C9_SecretsCarryToken ==
    (last.op = "save" /\ last.ok /\ is_secure(LastCfg))
        => LET sec == fs[last.name].sec IN
           /\ are_exist_server_secrets(sec)
           /\ \A f \in ServerSecretFiles : sec[f] = LastCfg.token

Patterns ==
    {<< >>, <<"a">>, <<"A">>, <<"b">>, <<"B">>, <<"a", "b">>, <<"a", "B">>,
     <<"b", "a">>}

\* the configurations C10 says a pattern selects
Selected(f, pattern) ==
    IF pattern = << >> THEN DOMAIN f
    ELSE IF pattern \in DOMAIN f THEN {pattern}
    ELSE {n \in DOMAIN f : Contains(Lower(n), Lower(pattern))}

IsSortedList(names) ==
    \A i \in 1..Len(names), j \in 1..Len(names) : i < j => StrLess(names[i], names[j])

\* C10: get_run_configs(pattern) returns all configurations without a
\* pattern, the one configuration whose name equals the pattern, otherwise
\* the configurations whose name contains it ignoring case;
\* get_run_config_names returns the same names in lexicographic order.
C10_PatternSelects ==
    \A pattern \in Patterns : \A o \in get_run_configs(fs, pattern) :
        /\ o.ok
        /\ DOMAIN o.res = Selected(fs, pattern)
        /\ \A n \in DOMAIN o.res : o.res[n] = Loaded(fs, n)
        /\ LET names == get_run_config_names(o) IN
           /\ {names[i] : i \in 1..Len(names)} = DOMAIN o.res
           /\ IsSortedList(names)

Procs == {"p1", "p2"}

Names == {<<"a">>, <<"b">>}

\* a process that runs no command
IdleProc ==
    [pc |-> "idle", cmd |-> "none", cfg |-> Absent, from_name |-> << >>,
     to_name |-> << >>, dirs |-> {}, handles |-> {}, obtained |-> FALSE,
     released |-> FALSE, refused |-> FALSE, wrote |-> FALSE, steps |-> << >>]

\* inodes of the run.lock files that exist or are still open somewhere
UsedInodes(f, pr) ==
    ({f[n].lock : n \in DOMAIN f} \ {0})
    \cup UNION {{h.ino : h \in pr[q].handles} : q \in DOMAIN pr}

FreeInodes(f, pr) == (1..MaxInode) \ UsedInodes(f, pr)

\* open(get_lock_file_name(config_name), 'w') opens run.lock and creates it
\* when the directory has none
LockInode(f, pr, n) ==
    IF f[n].lock # 0 THEN f[n].lock
    ELSE CHOOSE i \in FreeInodes(f, pr) : \A j \in FreeInodes(f, pr) : i <= j

\* the file system can still supply the run.lock the call would create
CanOpenLock(f, pr, n) ==
    n \in DOMAIN f => (f[n].lock # 0 \/ FreeInodes(f, pr) # {})

FreeFds(pr, p) == (1..MaxFds) \ {h.fd : h \in pr[p].handles}

\* lock_config(config_name) called by process p: raised (no directory),
\* or the handle it returns (Absent for None), with the files and the lock
\* table after the call
lock_config(f, owner, pr, p, n) ==
    IF n \notin DOMAIN f
    THEN [raised |-> TRUE, fs |-> f, owner |-> owner, handle |-> Absent]
    ELSE LET ino == LockInode(f, pr, n)
             f2  == [f EXCEPT ![n].lock = ino]
         IN  IF ino \in DOMAIN owner /\ owner[ino] # p
             THEN [raised |-> FALSE, fs |-> f2, owner |-> owner, handle |-> Absent]
             ELSE [raised |-> FALSE, fs |-> f2,
                   owner |-> [i \in (DOMAIN owner) \cup {ino} |->
                                 IF i = ino THEN p ELSE owner[i]],
                   handle |-> Some([name |-> n, ino |-> ino,
                                    fd |-> CHOOSE k \in FreeFds(pr, p) :
                                               \A j \in FreeFds(pr, p) : k <= j])]

\* release_config(lock) by process p: close() drops the lock p has on the file
release_config(owner, p, h) ==
    [i \in {j \in DOMAIN owner : ~(j = h.ino /\ owner[j] = p)} |-> owner[i]]

\* a terminating process closes every descriptor it has
exit_process(owner, p) == [i \in {j \in DOMAIN owner : owner[j] # p} |-> owner[i]]

(***************************************************************************)
(* The lock driven through lock_config / release_config by two processes,  *)
(* with configurations created and deleted meanwhile.                      *)
(***************************************************************************)
LockInit ==
    /\ fs = EmptyFn
    /\ ca = EmptyFn
    /\ latest = 1
    /\ apps = AppsAtStart
    /\ run = [p \in Procs |-> NoRun]
    /\ lockOwner = EmptyFn
    /\ proc = [p \in Procs |-> IdleProc]
    /\ last = NoCall

LockSave(n) ==
    /\ fs' = save_config(fs, ca, BaseConfig(n), Ides, 0).fs
    /\ UNCHANGED <<ca, latest, apps, run, lockOwner, proc, last>>

LockDelete(n) ==
    /\ n \in DOMAIN fs
    /\ fs' = delete_config(fs, n)
    /\ UNCHANGED <<ca, latest, apps, run, lockOwner, proc, last>>

ApiLock(p, n) ==
    /\ CanOpenLock(fs, proc, n)
    /\ FreeFds(proc, p) # {}
    /\ LET r == lock_config(fs, lockOwner, proc, p, n) IN
       /\ fs' = r.fs
       /\ lockOwner' = r.owner
       /\ proc' = [proc EXCEPT ![p].handles = @ \cup {r.handle[i] : i \in 1..Len(r.handle)}]
    /\ UNCHANGED <<ca, latest, apps, run, last>>

ApiRelease(p, h) ==
    /\ h \in proc[p].handles
    /\ lockOwner' = release_config(lockOwner, p, h)
    /\ proc' = [proc EXCEPT ![p].handles = @ \ {h}]
    /\ UNCHANGED <<fs, ca, latest, apps, run, last>>

Handles == [name : Names, ino : 1..MaxInode, fd : 1..MaxFds]

LockNext ==
    \/ \E n \in Names : LockSave(n)
    \/ \E n \in Names : LockDelete(n)
    \/ \E p \in Procs, n \in Names : ApiLock(p, n)
    \/ \E p \in Procs, h \in Handles : ApiRelease(p, h)

LockSpec == LockInit /\ [][LockNext]_vars

\* the handles lock_config returned for configuration n that were not yet
\* passed to release_config
LiveHandles(n) ==
    {ph \in Procs \X Handles : ph[2] \in proc[ph[1]].handles /\ ph[2].name = n}

\* C1: while a handle lock_config(n) returned is live, no further
\* lock_config(n), by the same or by another process, returns a handle:
\* at most one live lock handle exists per configuration.
C1_OneLiveHandle == \A n \in Names : Cardinality(LiveHandles(n)) <= 1

(***************************************************************************)
(* dialogs.py, ide_update.py: what the commands ask the user and the       *)
(* update server                                                           *)
(***************************************************************************)
IDEA_NEW_PATH == get_app_path(<<"idea", "-new">>)

\* select_run_config(config_name): the outcomes over the directory orders
\* and the user's choice when several configurations match
select_run_config(f, pattern) ==
    UNION {IF ~o.ok THEN {[kind |-> "raised", cfg |-> Absent]}
           ELSE IF DOMAIN o.res = {} THEN {[kind |-> "sysexit", cfg |-> Absent]}
           ELSE {[kind |-> "ok", cfg |-> Some(o.res[n])] : n \in DOMAIN o.res}
                \cup (IF Cardinality(DOMAIN o.res) > 1
                      THEN {[kind |-> "sysexit", cfg |-> Absent]} ELSE {})
           : o \in get_run_configs(f, pattern)}

\* edit_config(config) with the answers: the path typed, whether a secure
\* connection is wanted and the token generate_token() returns; every other
\* prompt is answered with its default
edit_config(c, path, secure_config, token) ==
    LET c1 == [c EXCEPT !.path_to_app = path, !.toolbox = is_toolbox_path(path)]
    IN  IF c.certificate # << >> THEN c1
        ELSE [c1 EXCEPT !.certificate = << >>, !.certificate_key = << >>,
                        !.certificate_chain = << >>,
                        !.token = IF secure_config THEN token ELSE << >>]

\* RunConfig.make_secure
make_secure(c, token) == [c EXCEPT !.token = token]

\* RunConfig.add_certificate: the configuration; _copy_cert_file puts the
\* three files into the directory of the configuration
add_certificate(c, token) ==
    make_secure([c EXCEPT !.certificate = <<"crt">>, !.certificate_key = <<"key">>,
                          !.certificate_chain = <<"chain">>], token)

CertFiles == {"cert/crt", "cert/key", "cert/chain"}

copy_cert_files(f, name) ==
    LET d == DirOf(f, name) IN
    WithDir(f, name,
        [d EXCEPT !.sec = [g \in (DOMAIN d.sec) \cup CertFiles |->
                              IF g \in CertFiles THEN << >> ELSE d.sec[g]]])

\* is_updatable_ide: the IDE was installed by the installer
is_updatable_ide(path) == path \in {IDEA_PATH, MPS_PATH, IDEA_NEW_PATH}

\* get_update: the newer product, if the server offers one
has_update(path) == path = IDEA_PATH

\* regenerate_config_if_toolbox: the configuration it goes on with
regenerate_config_if_toolbox(c, ides) ==
    IF c.toolbox /\ c.path_to_app # get_path_to_latest_app(ides)
    THEN [c EXCEPT !.path_to_app = get_path_to_latest_app(ides)]
    ELSE c

\* do_rename_config refuses the pair of names
rename_refused_no_target(run_configs, from_name, to_name) ==
    \/ from_name \notin DOMAIN run_configs
    \/ from_name = to_name

rename_refused(run_configs, from_name, to_name) ==
    \/ from_name \notin DOMAIN run_configs
    \/ from_name = to_name
    \/ to_name \in DOMAIN run_configs

(***************************************************************************)
(* actions.py: the commands, each run by a process of its own.  A command  *)
(* ends by returning, by sys.exit(1) or by an exception nobody catches;    *)
(* the process then terminates.                                            *)
(***************************************************************************)
Ended == {"returned", "sysexit", "raised"}

LockingCmds == {"run", "edit", "remove", "rename", "rebuild", "update", "cert"}

\* config.ini, run.sh, idea.properties and the secret files; not run.lock
FilesOf(f) == [n \in DOMAIN f |-> [f[n] EXCEPT !.lock = 0]]

\* tool invocation that fails during save_config (0: none)
ToolFailures == {0, 1}

GeneratedTokens == {Tok(1)}

Init ==
    /\ fs = EmptyFn
    /\ ca = EmptyFn
    /\ latest = 1
    /\ apps = AppsAtStart
    /\ run = [p \in Procs |-> NoRun]
    /\ lockOwner = EmptyFn
    /\ proc = [p \in Procs |-> IdleProc]
    /\ last = NoCall

Me(p) == proc[p]

MyCfg(p) == proc[p].cfg[1]

SetProc(p, r) == proc' = [proc EXCEPT ![p] = r]

\* the command starts with select_run_config(config_name)
Select(p, cmd, pattern, next) ==
    /\ Me(p).pc = "idle"
    /\ \E s \in select_run_config(fs, pattern) :
          SetProc(p, [IdleProc EXCEPT !.cmd = cmd, !.cfg = s.cfg,
                         !.pc = IF s.kind = "ok" THEN next ELSE s.kind])
    /\ UNCHANGED <<fs, ca, latest, apps, run, lockOwner, last>>

\* lock = lock_config(name); if not lock: sys.exit(1)
Lock(p, at, name, next) ==
    /\ Me(p).pc = at
    /\ CanOpenLock(fs, proc, name)
    /\ LET r == lock_config(fs, lockOwner, proc, p, name) IN
       /\ fs' = r.fs
       /\ lockOwner' = r.owner
       /\ SetProc(p, IF r.raised THEN [Me(p) EXCEPT !.pc = "raised"]
                     ELSE IF r.handle = Absent
                     THEN [Me(p) EXCEPT !.pc = "sysexit", !.refused = TRUE]
                     ELSE [Me(p) EXCEPT !.pc = next, !.obtained = TRUE,
                                        !.handles = {r.handle[1]}])
    /\ UNCHANGED <<ca, latest, apps, run, last>>

\* save_config(c) on the files f0 and the installed IDEs apps1, and then
\* release_config(lock)
SaveReleaseWith(p, at, f0, c, apps1) ==
    /\ Me(p).pc = at
    /\ apps' = apps1
    /\ \E fail \in ToolFailures :
          LET r == save_config(f0, ca, c, [latest |-> latest, apps |-> apps1], fail)
              w == Me(p).wrote \/ FilesOf(r.fs) # FilesOf(fs)
          IN  /\ fs' = r.fs
              /\ ca' = r.ca
              /\ IF r.raised
                 THEN /\ SetProc(p, [Me(p) EXCEPT !.pc = "raised", !.wrote = w])
                      /\ lockOwner' = lockOwner
                 ELSE /\ SetProc(p, [Me(p) EXCEPT !.pc = "returned", !.wrote = w,
                                        !.released = TRUE, !.handles = {}])
                      /\ lockOwner' = release_config(lockOwner, p,
                                          CHOOSE h \in Me(p).handles : TRUE)
    /\ UNCHANGED <<latest, run, last>>

\* save_config(c) on the files f0 and then release_config(lock)
SaveRelease(p, at, f0, c) == SaveReleaseWith(p, at, f0, c, apps)

\* sys.exit(1) with the lock still open
ExitLocked(p, at) ==
    /\ Me(p).pc = at
    /\ SetProc(p, [Me(p) EXCEPT !.pc = "sysexit"])
    /\ UNCHANGED <<fs, ca, latest, apps, run, lockOwner, last>>

\* do_run_config
do_run_config_select(p, pattern) == Select(p, "run", pattern, "run_regen")

\* check_ide_update, regenerate_config_if_toolbox, then the run.sh test
do_run_config_regenerate(p) ==
    /\ Me(p).pc = "run_regen"
    /\ LET c == regenerate_config_if_toolbox(MyCfg(p), Ides) IN
       \E fail \in ToolFailures :
          LET r == IF c = MyCfg(p) THEN [fs |-> fs, ca |-> ca, raised |-> FALSE]
                   ELSE save_config(fs, ca, c, Ides, fail)
              w == FilesOf(r.fs) # FilesOf(fs)
          IN  /\ fs' = r.fs
              /\ ca' = r.ca
              /\ SetProc(p, [Me(p) EXCEPT
                     !.cfg = Some(c), !.wrote = w,
                     !.pc = IF r.raised THEN "raised"
                            ELSE IF c.name \in DOMAIN r.fs /\ r.fs[c.name].script # Absent
                            THEN "run_lock" ELSE "sysexit"])
    /\ UNCHANGED <<latest, apps, run, lockOwner, last>>

do_run_config_lock(p) == Lock(p, "run_lock", MyCfg(p).name, "run_wait")

\* the IDE runs; projector_process.wait() returns; release_config(lock)
do_run_config_wait(p) ==
    /\ Me(p).pc = "run_wait"
    /\ lockOwner' = release_config(lockOwner, p, CHOOSE h \in Me(p).handles : TRUE)
    /\ SetProc(p, [Me(p) EXCEPT !.pc = "returned", !.released = TRUE, !.handles = {}])
    /\ UNCHANGED <<fs, ca, latest, apps, run, last>>

\* do_edit_config
do_edit_config_select(p, pattern) == Select(p, "edit", pattern, "edit_lock")

do_edit_config_lock(p) == Lock(p, "edit_lock", MyCfg(p).name, "edit_edit")

\* the user keeps the path the prompt offers or types a wrong one
do_edit_config_edit(p, wrong_path, secure_config, token) ==
    /\ Me(p).pc = "edit_edit"
    /\ LET path == IF wrong_path THEN BAD_PATH ELSE MyCfg(p).path_to_app
           c == edit_config(MyCfg(p), path, secure_config, token)
       IN  IF validate_run_config(c, Ides)
           THEN SaveRelease(p, "edit_edit", fs, c)
           ELSE ExitLocked(p, "edit_edit")

\* do_remove_config
do_remove_config_select(p, pattern) == Select(p, "remove", pattern, "remove_lock")

\* lock_config, load_config, release_config
do_remove_config_lock(p) ==
    /\ Me(p).pc = "remove_lock"
    /\ CanOpenLock(fs, proc, MyCfg(p).name)
    /\ LET n == MyCfg(p).name
           r == lock_config(fs, lockOwner, proc, p, n)
       IN  /\ fs' = r.fs
           /\ IF r.raised
              THEN /\ SetProc(p, [Me(p) EXCEPT !.pc = "raised"])
                   /\ lockOwner' = r.owner
              ELSE IF r.handle = Absent
              THEN /\ SetProc(p, [Me(p) EXCEPT !.pc = "sysexit", !.refused = TRUE])
                   /\ lockOwner' = r.owner
              ELSE IF ~Loadable(r.fs, n)
              THEN /\ SetProc(p, [Me(p) EXCEPT !.pc = "raised", !.obtained = TRUE,
                                     !.handles = {r.handle[1]}])
                   /\ lockOwner' = r.owner
              ELSE /\ SetProc(p, [Me(p) EXCEPT !.pc = "remove_delete",
                                     !.cfg = Some(Loaded(r.fs, n)),
                                     !.obtained = TRUE, !.released = TRUE])
                   /\ lockOwner' = release_config(r.owner, p, r.handle[1])
    /\ UNCHANGED <<ca, latest, apps, run, last>>

do_remove_config_delete(p) ==
    /\ Me(p).pc = "remove_delete"
    /\ fs' = delete_config(fs, MyCfg(p).name)
    /\ SetProc(p, [Me(p) EXCEPT !.pc = "returned",
                      !.wrote = FilesOf(fs') # FilesOf(fs)])
    /\ UNCHANGED <<ca, latest, apps, run, lockOwner, last>>

\* do_rename_config
do_rename_config_check(p, from_name, to_name) ==
    /\ Me(p).pc = "idle"
    /\ \E o \in get_run_configs(fs, << >>) :
          SetProc(p, [IdleProc EXCEPT
              !.cmd = "rename", !.from_name = from_name, !.to_name = to_name,
              !.dirs = DOMAIN fs,
              !.pc = IF ~o.ok THEN "raised"
                     ELSE IF rename_refused(o.res, from_name, to_name) THEN "sysexit"
                     ELSE "rename_lock"])
    /\ UNCHANGED <<fs, ca, latest, apps, run, lockOwner, last>>

do_rename_config_lock(p) == Lock(p, "rename_lock", Me(p).from_name, "rename_rename")

\* rename_config, release_config
do_rename_config_rename(p) ==
    /\ Me(p).pc = "rename_rename"
    /\ IF rename_config_ok(fs, Me(p).from_name, Me(p).to_name)
       THEN /\ fs' = rename_config(fs, Me(p).from_name, Me(p).to_name)
            /\ lockOwner' = release_config(lockOwner, p, CHOOSE h \in Me(p).handles : TRUE)
            /\ SetProc(p, [Me(p) EXCEPT !.pc = "returned", !.wrote = TRUE,
                              !.released = TRUE, !.handles = {}])
       ELSE /\ SetProc(p, [Me(p) EXCEPT !.pc = "raised"])
            /\ UNCHANGED <<fs, lockOwner>>
    /\ UNCHANGED <<ca, latest, apps, run, last>>

\* do_rebuild_config
do_rebuild_config_select(p, pattern) == Select(p, "rebuild", pattern, "rebuild_lock")

do_rebuild_config_lock(p) == Lock(p, "rebuild_lock", MyCfg(p).name, "rebuild_save")

do_rebuild_config_save(p) == SaveRelease(p, "rebuild_save", fs, MyCfg(p))

\* do_update_config
\* select_run_config, is_updatable_ide, get_update
do_update_config_select(p, pattern, offered) ==
    /\ Me(p).pc = "idle"
    /\ \E s \in select_run_config(fs, pattern) :
          SetProc(p, [IdleProc EXCEPT !.cmd = "update", !.cfg = s.cfg,
              !.pc = IF s.kind # "ok" THEN s.kind
                     ELSE IF is_updatable_ide(s.cfg[1].path_to_app)
                             /\ has_update(s.cfg[1].path_to_app) /\ offered
                     THEN "update_lock" ELSE "returned"])
    /\ UNCHANGED <<fs, ca, latest, apps, run, lockOwner, last>>

do_update_config_lock(p) == Lock(p, "update_lock", MyCfg(p).name, "update_update")

\* download_and_install(url): the name of the directory unpack_app creates
download_and_install == <<"idea", "-new">>

\* update_config: download_and_install exits on IOError, else it unpacks the
\* product into the apps directory; then save_config
do_update_config_update(p, downloaded) ==
    IF downloaded
    THEN SaveReleaseWith(p, "update_update", fs,
                         [MyCfg(p) EXCEPT
                             !.path_to_app = get_app_path(download_and_install)],
                         apps \cup {download_and_install})
    ELSE ExitLocked(p, "update_update")

\* do_install_cert
do_install_cert_select(p, pattern) == Select(p, "cert", pattern, "cert_lock")

do_install_cert_lock(p) == Lock(p, "cert_lock", MyCfg(p).name, "cert_install")

\* kind "auto": no certificate given; "missing": a file is not there;
\* "cert": certificate, key and chain are copied into the configuration
do_install_cert_install(p, kind, token) ==
    CASE kind = "auto" ->
            SaveRelease(p, "cert_install", fs, make_secure(MyCfg(p), token))
      [] kind = "missing" -> ExitLocked(p, "cert_install")
      [] kind = "cert" ->
            SaveRelease(p, "cert_install", copy_cert_files(fs, MyCfg(p).name),
                        add_certificate(MyCfg(p), token))

\* do_auto_add_config
do_auto_add_config(p, config_name, app_path, password, force) ==
    /\ Me(p).pc = "idle"
    /\ \E o \in get_run_configs(fs, << >>), fail \in ToolFailures :
          LET c == [BaseConfig(config_name) EXCEPT
                       !.path_to_app = app_path, !.password = password,
                       !.ro_password = password,
                       !.toolbox = is_toolbox_path(app_path),
                       !.update_channel = IF is_toolbox_path(app_path)
                                          THEN UNKNOWN ELSE NOT_TESTED]
              r == save_config(fs, ca, c, Ides, fail)
              me == [IdleProc EXCEPT !.cmd = "add"]
          IN  IF ~o.ok
              THEN /\ SetProc(p, [me EXCEPT !.pc = "raised"])
                   /\ UNCHANGED <<fs, ca>>
              ELSE IF config_name \in DOMAIN o.res /\ ~force
              THEN /\ SetProc(p, [me EXCEPT !.pc = "sysexit"])
                   /\ UNCHANGED <<fs, ca>>
              ELSE /\ fs' = r.fs
                   /\ ca' = r.ca
                   /\ SetProc(p, [me EXCEPT !.wrote = FilesOf(r.fs) # FilesOf(fs),
                                     !.pc = IF r.raised THEN "raised" ELSE "returned"])
    /\ UNCHANGED <<latest, apps, run, lockOwner, last>>

\* the interpreter terminates: every descriptor of the process is closed; a
\* child process that still runs goes on running
ProcessExit(p) ==
    /\ Me(p).pc \in Ended
    /\ lockOwner' = exit_process(lockOwner, p)
    /\ SetProc(p, IdleProc)
    /\ run' = [run EXCEPT ![p] =
                  IF @.child = "running"
                  THEN [NoRun EXCEPT !.child = "running", !.childsig = run[p].childsig]
                  ELSE NoRun]
    /\ UNCHANGED <<fs, ca, latest, apps, last>>

\* JetBrains Toolbox installs a newer version into the channel
ToolboxUpdate ==
    /\ latest < MaxVer
    /\ latest' = latest + 1
    /\ UNCHANGED <<fs, ca, apps, lockOwner, proc, run, last>>

\* The commands on one configuration name, from two terminals: in the first
\* the user issues any command, in the second configurations are run (the
\* lock is held for as long as the IDE runs).
CmdNames == {<<"a">>}

Users == {"p1"}

\* what the users type
CmdPatterns == CmdNames \cup {<< >>}

AddApps == {IDEA_PATH, ToolboxPath(1)}

AddPasswords == {<< >>}

CertKinds == {"auto", "missing", "cert"}

Next ==
    \/ \E p \in Users, n \in CmdNames, a \in AddApps, pw \in AddPasswords,
          force \in BOOLEAN : do_auto_add_config(p, n, a, pw, force)
    \/ \E p \in Procs, n \in CmdPatterns : do_run_config_select(p, n)
    \/ \E p \in Procs : do_run_config_regenerate(p)
    \/ \E p \in Procs : do_run_config_lock(p)
    \/ \E p \in Procs : do_run_config_wait(p)
    \/ \E p \in Users, n \in CmdPatterns : do_edit_config_select(p, n)
    \/ \E p \in Users : do_edit_config_lock(p)
    \/ \E p \in Users, wrong \in BOOLEAN, sec \in BOOLEAN, t \in GeneratedTokens :
          do_edit_config_edit(p, wrong, sec, t)
    \/ \E p \in Users, n \in CmdPatterns : do_remove_config_select(p, n)
    \/ \E p \in Users : do_remove_config_lock(p)
    \/ \E p \in Users : do_remove_config_delete(p)
    \/ \E p \in Users, n \in CmdPatterns : do_rebuild_config_select(p, n)
    \/ \E p \in Users : do_rebuild_config_lock(p)
    \/ \E p \in Users : do_rebuild_config_save(p)
    \/ \E p \in Users, n \in CmdPatterns, offered \in BOOLEAN :
          do_update_config_select(p, n, offered)
    \/ \E p \in Users : do_update_config_lock(p)
    \/ \E p \in Users, downloaded \in BOOLEAN : do_update_config_update(p, downloaded)
    \/ \E p \in Users, n \in CmdPatterns : do_install_cert_select(p, n)
    \/ \E p \in Users : do_install_cert_lock(p)
    \/ \E p \in Users, k \in CertKinds, t \in GeneratedTokens :
          do_install_cert_install(p, k, t)
    \/ \E p \in Procs : ProcessExit(p)
    \/ ToolboxUpdate

Spec == Init /\ [][Next]_vars

\* Renaming: two configuration names; configurations are added, run,
\* removed and renamed from two terminals.
RenamePasswords == {<< >>, <<"p", "%">>}

RenameNext ==
    \/ \E p \in Procs, n \in Names, pw \in RenamePasswords, force \in BOOLEAN :
          do_auto_add_config(p, n, IDEA_PATH, pw, force)
    \/ \E p \in Procs, n \in Names : do_run_config_select(p, n)
    \/ \E p \in Procs : do_run_config_regenerate(p)
    \/ \E p \in Procs : do_run_config_lock(p)
    \/ \E p \in Procs : do_run_config_wait(p)
    \/ \E p \in Procs, n \in Names : do_remove_config_select(p, n)
    \/ \E p \in Procs : do_remove_config_lock(p)
    \/ \E p \in Procs : do_remove_config_delete(p)
    \/ \E p \in Procs, a \in Names, b \in Names : do_rename_config_check(p, a, b)
    \/ \E p \in Procs : do_rename_config_lock(p)
    \/ \E p \in Procs : do_rename_config_rename(p)
    \/ \E p \in Procs : ProcessExit(p)

RenameSpec == Init /\ [][RenameNext]_vars

(***************************************************************************)
(* apps.py, actions.py: adding configurations for installed IDEs,          *)
(* installing and uninstalling IDEs                                        *)
(***************************************************************************)
\* the atoms that end a directory name inside a path
IsSep(atom) == atom \in {"/", "/apps/", "/toolbox/ch/"}

\* os.path.basename(path): what follows the last separator
basename(path) ==
    LET seps == {i \in 1..Len(path) : IsSep(path[i])}
        k == IF seps = {} THEN 0 ELSE CHOOSE i \in seps : \A j \in seps : j <= i
    IN  SubSeq(path, k + 1, Len(path))

\* get_installed_apps(pattern): the names in the apps directory that contain
\* the pattern, ignoring case
get_installed_apps(installed, pattern) ==
    {a \in installed : Contains(Lower(a), Lower(pattern))}

\* get_configs_with_app(app_name) on one outcome of get_run_configs()
get_configs_with_app(o, app_name) ==
    {k \in DOMAIN o.res : o.res[k].path_to_app = get_app_path(app_name)}

\* do_uninstall_app(app_name): the outcomes over the user's choice when
\* several installed IDEs match and over the directory orders
UninstallOutcomes(f, installed, pattern) ==
    LET found == get_installed_apps(installed, pattern)
        quit == [kind |-> "sysexit", apps |-> installed]
    IN  IF found = {} THEN {quit}
        ELSE (IF Cardinality(found) > 1 THEN {quit} ELSE {})
             \cup {IF ~o.ok THEN [kind |-> "raised", apps |-> installed]
                   ELSE IF get_configs_with_app(o, a) # {} THEN quit
                   ELSE [kind |-> "returned", apps |-> installed \ {a}]
                   : a \in found, o \in get_run_configs(f, << >>)}

\* do_add_config(hint, app_path, quick) with a name that is not in use
do_add_config(p, config_name, app_path) ==
    /\ Me(p).pc = "idle"
    /\ \E o \in get_run_configs(fs, << >>), fail \in ToolFailures :
          LET c0 == [BaseConfig(config_name) EXCEPT
                        !.path_to_app = app_path,
                        !.toolbox = is_toolbox_path(app_path)]
              c == IF c0.toolbox
                   THEN [c0 EXCEPT !.path_to_app = get_path_to_latest_app(Ides)]
                   ELSE c0
              r == save_config(fs, ca, c, Ides, fail)
              me == [IdleProc EXCEPT !.cmd = "add"]
          IN  IF ~o.ok
              THEN /\ SetProc(p, [me EXCEPT !.pc = "raised"])
                   /\ UNCHANGED <<fs, ca>>
              ELSE IF config_name \in DOMAIN o.res \/ ~validate_run_config(c, Ides)
              THEN /\ SetProc(p, [me EXCEPT !.pc = "sysexit"])
                   /\ UNCHANGED <<fs, ca>>
              ELSE /\ fs' = r.fs
                   /\ ca' = r.ca
                   /\ SetProc(p, [me EXCEPT !.wrote = FilesOf(r.fs) # FilesOf(fs),
                                     !.pc = IF r.raised THEN "raised" ELSE "returned"])
    /\ UNCHANGED <<latest, apps, run, lockOwner, last>>

\* do_auto_install: install_app downloads and unpacks the IDE, validates the
\* configuration and saves it
do_auto_install(p, config_name, downloaded) ==
    /\ Me(p).pc = "idle"
    /\ \E o \in get_run_configs(fs, config_name), fail \in ToolFailures :
          LET c == [BaseConfig(config_name) EXCEPT
                       !.path_to_app = get_app_path(download_and_install)]
              apps1 == apps \cup {download_and_install}
              ides1 == [latest |-> latest, apps |-> apps1]
              r == save_config(fs, ca, c, ides1, fail)
              me == [IdleProc EXCEPT !.cmd = "install"]
          IN  IF ~o.ok
              THEN /\ SetProc(p, [me EXCEPT !.pc = "raised"])
                   /\ UNCHANGED <<fs, ca, apps>>
              ELSE IF config_name \in DOMAIN o.res \/ ~downloaded
              THEN /\ SetProc(p, [me EXCEPT !.pc = "sysexit"])
                   /\ UNCHANGED <<fs, ca, apps>>
              ELSE IF ~validate_run_config(c, ides1)
              THEN /\ SetProc(p, [me EXCEPT !.pc = "sysexit"])
                   /\ apps' = apps1
                   /\ UNCHANGED <<fs, ca>>
              ELSE /\ fs' = r.fs
                   /\ ca' = r.ca
                   /\ apps' = apps1
                   /\ SetProc(p, [me EXCEPT !.wrote = FilesOf(r.fs) # FilesOf(fs),
                                     !.pc = IF r.raised THEN "raised" ELSE "returned"])
    /\ UNCHANGED <<latest, run, lockOwner, last>>

\* do_uninstall_app(app_name)
do_uninstall_app(p, pattern) ==
    /\ Me(p).pc = "idle"
    /\ \E u \in UninstallOutcomes(fs, apps, pattern) :
          /\ apps' = u.apps
          /\ SetProc(p, [IdleProc EXCEPT !.cmd = "uninstall", !.pc = u.kind])
    /\ UNCHANGED <<fs, ca, latest, run, lockOwner, last>>

\* do_remove_config(config_name, uninstall_ide=True) after release_config:
\* delete_config, then do_uninstall_app(basename(path_to_app))
do_remove_config_uninstall(p) ==
    /\ Me(p).pc = "remove_delete"
    /\ fs' = delete_config(fs, MyCfg(p).name)
    /\ IF is_toolbox_path(MyCfg(p).path_to_app)
       THEN /\ apps' = apps
            /\ SetProc(p, [Me(p) EXCEPT !.pc = "returned",
                              !.wrote = FilesOf(fs') # FilesOf(fs)])
       ELSE \E u \in UninstallOutcomes(fs', apps, basename(MyCfg(p).path_to_app)) :
               /\ apps' = u.apps
               /\ SetProc(p, [Me(p) EXCEPT !.pc = u.kind,
                                 !.wrote = FilesOf(fs') # FilesOf(fs)])
    /\ UNCHANGED <<ca, latest, run, lockOwner, last>>

\* Persisting a configuration, from one terminal and on one name: every
\* command that calls save_config; IDE paths as the user may type them (an
\* installed IDE, the toolbox channel with a version that is there and with
\* one that is not).
PersistPaths == {IDEA_PATH, ToolboxPath(1), ToolboxPath(MaxVer)}

PersistNext ==
    \/ \E p \in Users, n \in CmdNames, a \in PersistPaths, force \in BOOLEAN :
          do_auto_add_config(p, n, a, << >>, force)
    \/ \E p \in Users, n \in CmdNames, a \in PersistPaths : do_add_config(p, n, a)
    \/ \E p \in Users, n \in CmdNames, d \in BOOLEAN : do_auto_install(p, n, d)
    \/ \E p \in Users, n \in CmdNames : do_run_config_select(p, n)
    \/ \E p \in Users : do_run_config_regenerate(p)
    \/ \E p \in Users : do_run_config_lock(p)
    \/ \E p \in Users : do_run_config_wait(p)
    \/ \E p \in Users, n \in CmdNames : do_edit_config_select(p, n)
    \/ \E p \in Users : do_edit_config_lock(p)
    \/ \E p \in Users, wrong \in BOOLEAN, sec \in BOOLEAN, t \in GeneratedTokens :
          do_edit_config_edit(p, wrong, sec, t)
    \/ \E p \in Users, n \in CmdNames : do_rebuild_config_select(p, n)
    \/ \E p \in Users : do_rebuild_config_lock(p)
    \/ \E p \in Users : do_rebuild_config_save(p)
    \/ \E p \in Users, n \in CmdNames, offered \in BOOLEAN :
          do_update_config_select(p, n, offered)
    \/ \E p \in Users : do_update_config_lock(p)
    \/ \E p \in Users, downloaded \in BOOLEAN : do_update_config_update(p, downloaded)
    \/ \E p \in Users, n \in CmdNames : do_install_cert_select(p, n)
    \/ \E p \in Users : do_install_cert_lock(p)
    \/ \E p \in Users, k \in CertKinds, t \in GeneratedTokens :
          do_install_cert_install(p, k, t)
    \/ \E p \in Users, n \in CmdNames : do_remove_config_select(p, n)
    \/ \E p \in Users : do_remove_config_lock(p)
    \/ \E p \in Users : do_remove_config_delete(p)
    \/ \E p \in Users : ProcessExit(p)
    \/ ToolboxUpdate

PersistSpec == Init /\ [][PersistNext]_vars

\* Installing and uninstalling IDEs, from one terminal: configurations
\* under two names for an installed IDE, its path typed with and without a
\* trailing "/".
UninstallPaths == {IDEA_PATH, IDEA_PATH \o <<"/">>, MPS_PATH}

UninstallPatterns == {<< >>, <<"idea">>, <<"mps">>}

UninstallNext ==
    \/ \E p \in Users, n \in Names, a \in UninstallPaths, force \in BOOLEAN :
          do_auto_add_config(p, n, a, << >>, force)
    \/ \E p \in Users, n \in Names, a \in UninstallPaths : do_add_config(p, n, a)
    \/ \E p \in Users, n \in Names, d \in BOOLEAN : do_auto_install(p, n, d)
    \/ \E p \in Users, n \in Names : do_remove_config_select(p, n)
    \/ \E p \in Users : do_remove_config_lock(p)
    \/ \E p \in Users : do_remove_config_delete(p)
    \/ \E p \in Users : do_remove_config_uninstall(p)
    \/ \E p \in Users, a \in UninstallPatterns : do_uninstall_app(p, a)
    \/ \E p \in Users : ProcessExit(p)

UninstallSpec == Init /\ [][UninstallNext]_vars

(***************************************************************************)
(* actions.py, log_utils.py: do_run_config after lock_config, statement by *)
(* statement, with the child process and SIGINT                            *)
(***************************************************************************)
MySession(p) == run[p]

SetRun(p, r) == run' = [run EXCEPT ![p] = r]

\* is_unexpected_exit(ret_code)
is_unexpected_exit(ret_code) == ret_code \notin {0, -2, -15}

\* The status the child ends with: on its own 0 or 1; after SIGTERM or
\* SIGINT the status of a process killed by the signal, or 128 + signal
\* when the child handles the signal and exits.
ChildStatuses(childsig) ==
    CASE childsig = "TERM" -> {-15, 143}
      [] childsig = "INT"  -> {-2, 130}
      [] OTHER             -> {0, 1}

\* check_config (a warning only), log_file = init_log(run_config.name)
do_run_config_init_log(p) ==
    /\ Me(p).pc = "run_wait"
    /\ SetProc(p, [Me(p) EXCEPT !.pc = "run_spawn"])
    /\ SetRun(p, [NoRun EXCEPT !.log = "open"])
    /\ UNCHANGED <<fs, ca, latest, apps, lockOwner, last>>

\* projector_process = subprocess.Popen([run_script_name], ...)
do_run_config_spawn(p) ==
    /\ Me(p).pc = "run_spawn"
    /\ SetProc(p, [Me(p) EXCEPT !.pc = "run_handler"])
    /\ SetRun(p, [MySession(p) EXCEPT !.child = "running"])
    /\ UNCHANGED <<fs, ca, latest, apps, lockOwner, last>>

\* PROJECTOR_PID = projector_process.pid; signal.signal(SIGINT, signal_handler)
do_run_config_handler(p) ==
    /\ Me(p).pc = "run_handler"
    /\ SetProc(p, [Me(p) EXCEPT !.pc = "run_info"])
    /\ SetRun(p, [MySession(p) EXCEPT !.handler = TRUE])
    /\ UNCHANGED <<fs, ca, latest, apps, lockOwner, last>>

\* get_access_urls, is_compatible_java, do_run_browser: get_java_path calls
\* sys.exit(1) when no java is found, get_java_version raises when the java
\* binary cannot be started or prints no version
InfoOutcomes == {"run_join", "sysexit", "raised"}

do_run_config_info(p, outcome) ==
    /\ Me(p).pc = "run_info"
    /\ SetProc(p, [Me(p) EXCEPT !.pc = outcome])
    /\ UNCHANGED <<fs, ca, latest, apps, lockOwner, run, last>>

\* ret_code = projector_process.wait()
do_run_config_join(p) ==
    /\ Me(p).pc = "run_join"
    /\ MySession(p).child = "exited"
    /\ SetProc(p, [Me(p) EXCEPT !.pc = "run_shutdown"])
    /\ SetRun(p, [MySession(p) EXCEPT !.child = "joined"])
    /\ UNCHANGED <<fs, ca, latest, apps, lockOwner, last>>

\* shutdown_log(ret_code, log_file)
do_run_config_shutdown_log(p) ==
    /\ Me(p).pc = "run_shutdown"
    /\ SetProc(p, [Me(p) EXCEPT !.pc = "run_release"])
    /\ SetRun(p, [MySession(p) EXCEPT !.log = "closed",
                      !.dumped = is_unexpected_exit(MySession(p).ret)])
    /\ UNCHANGED <<fs, ca, latest, apps, lockOwner, last>>

\* release_config(lock)
do_run_config_release(p) ==
    /\ Me(p).pc = "run_release"
    /\ lockOwner' = release_config(lockOwner, p, CHOOSE h \in Me(p).handles : TRUE)
    /\ SetProc(p, [Me(p) EXCEPT !.pc = "returned", !.released = TRUE, !.handles = {}])
    /\ UNCHANGED <<fs, ca, latest, apps, run, last>>

\* the child process ends
ChildExit(p, ret_code) ==
    /\ MySession(p).child = "running"
    /\ ret_code \in ChildStatuses(MySession(p).childsig)
    /\ SetRun(p, [MySession(p) EXCEPT !.child = "exited", !.ret = ret_code])
    /\ UNCHANGED <<fs, ca, latest, apps, lockOwner, proc, last>>

AfterSpawn == {"run_handler", "run_info", "run_join", "run_shutdown", "run_release"}

\* SIGINT arrives at the command after Popen returned; group: it is Ctrl+C
\* on the terminal, which signals the child as well.  Without signal_handler
\* installed the interpreter raises KeyboardInterrupt; signal_handler calls
\* os.kill(PROJECTOR_PID, SIGTERM), which raises ProcessLookupError once
\* the child has been waited for.
Sigint(p, group) ==
    /\ Me(p).pc \in AfterSpawn
    /\ ~MySession(p).sigint
    /\ LET s  == MySession(p)
           s1 == [s EXCEPT !.sigint = TRUE,
                           !.childsig = IF group /\ s.child = "running"
                                        THEN "INT" ELSE @]
       IN  IF ~s.handler
           THEN /\ SetRun(p, s1)
                /\ SetProc(p, [Me(p) EXCEPT !.pc = "raised"])
           ELSE IF s.child = "joined"
           THEN /\ SetRun(p, s1)
                /\ SetProc(p, [Me(p) EXCEPT !.pc = "raised"])
           ELSE /\ SetRun(p, [s1 EXCEPT !.childsig = IF s.child = "running"
                                                     THEN "TERM" ELSE @])
                /\ UNCHANGED proc
    /\ UNCHANGED <<fs, ca, latest, apps, lockOwner, last>>

\* one step of the command process p runs
RunStep(p) ==
    \/ do_run_config_regenerate(p)
    \/ do_run_config_lock(p)
    \/ do_run_config_init_log(p)
    \/ do_run_config_spawn(p)
    \/ do_run_config_handler(p)
    \/ \E o \in InfoOutcomes : do_run_config_info(p, o)
    \/ do_run_config_join(p)
    \/ do_run_config_shutdown_log(p)
    \/ do_run_config_release(p)

ExitStatuses == {-15, -2, 0, 1, 130, 143}

\* Running a configuration from two terminals: the configuration is added,
\* then run; the IDE ends by itself or the user presses Ctrl+C.
RunNext ==
    \/ \E p \in Users, n \in CmdNames : do_auto_add_config(p, n, IDEA_PATH, << >>, FALSE)
    \/ \E p \in Procs, n \in CmdNames : do_run_config_select(p, n)
    \/ \E p \in Procs : RunStep(p)
    \/ \E p \in Procs, ret_code \in ExitStatuses : ChildExit(p, ret_code)
    \/ \E p \in Procs, group \in BOOLEAN : Sigint(p, group)
    \/ \E p \in Procs : ProcessExit(p)

RunSpec == Init /\ [][RunNext]_vars

\* The interpreter keeps executing the command and the child process does
\* not run for ever.
RunFairness ==
    \A p \in Procs :
        /\ WF_vars(RunStep(p))
        /\ WF_vars(\E ret_code \in ExitStatuses : ChildExit(p, ret_code))

RunLiveSpec == RunSpec /\ RunFairness

(***************************************************************************)
(* Claims about the commands                                               *)
(***************************************************************************)
\* the process took the step
Stepped(p) == proc'[p] # proc[p]

\* C2: in run, edit, remove, rename, rebuild, update and install-certificate
\* no file of the configuration (config.ini, run.sh, secrets, the directory
\* itself) is written before the command has obtained the lock.
C2_LockBeforeWrite ==
    [][\A p \in Procs :
          (Stepped(p) /\ proc'[p].cmd \in LockingCmds /\ FilesOf(fs') # FilesOf(fs))
              => proc[p].obtained]_vars

\* C3: a command that obtained the lock has, wherever it ends (return,
\* sys.exit, uncaught exception), called release_config, and the lock is free.
C3_ReleasedOnEveryExit ==
    \A p \in Procs :
        (proc[p].pc \in Ended /\ proc[p].obtained)
            => /\ proc[p].released
               /\ proc[p].handles = {}
               /\ \A i \in DOMAIN lockOwner : lockOwner[i] # p

\* C4: a command whose lock_config returned None ends by sys.exit with a
\* non-zero status and has written no file of the configuration.
C4_RefusedLeavesFiles ==
    \A p \in Procs :
        proc[p].refused => (proc[p].pc = "sysexit" /\ ~proc[p].wrote)

\* do_rename_config(a, b) found b present, a absent or a = b
RenameMustRefuse(p) ==
    /\ proc[p].cmd = "rename"
    /\ \/ proc[p].to_name \in proc[p].dirs
       \/ proc[p].from_name \notin proc[p].dirs
       \/ proc[p].from_name = proc[p].to_name

\* C6: do_rename_config(a, b) with b a persisted configuration, a missing
\* or a = b ends with a non-zero status, takes no lock and changes no file.
C6_RenameRefused ==
    /\ [](\A p \in Procs :
            RenameMustRefuse(p)
                => /\ proc[p].pc \in {"sysexit", "raised"}
                   /\ ~proc[p].obtained /\ proc[p].handles = {}
                   /\ \A i \in DOMAIN lockOwner : lockOwner[i] # p)
    /\ [][\A p \in Procs :
            (Stepped(p) /\ RenameMustRefuse(p)' /\ proc[p].pc = "idle")
                => (fs' = fs /\ lockOwner' = lockOwner)]_vars
    /\ [][\A p \in Procs :
            (Stepped(p) /\ RenameMustRefuse(p))
                => (fs' = fs /\ proc'[p] = IdleProc)]_vars

\* the rename was refused because the target exists
C6_Witness ==
    \E p \in Procs :
        /\ proc[p].cmd = "rename" /\ proc[p].pc = "sysexit"
        /\ proc[p].from_name \in proc[p].dirs
        /\ proc[p].to_name \in proc[p].dirs
        /\ proc[p].from_name # proc[p].to_name
        /\ proc[p].to_name \in DOMAIN fs
        /\ \E q \in Procs : q # p /\ proc[q].pc = "run_wait"

\* the commands that persist a configuration
PersistingCmds == {"add", "install", "edit", "rebuild", "update", "cert", "run"}

\* the configurations of which a file (config.ini, run.sh, idea.properties,
\* a secret) differs between the files f and the files f2
WrittenNames(f, f2) ==
    {n \in DOMAIN f2 : n \notin DOMAIN f \/ FilesOf(f2)[n] # FilesOf(f)[n]}

\* IDE.PATH as config.ini of n holds it
PersistedPath(f, n) == ReadValue(f[n].ini[1]["IDE.PATH"])

\* C12: every command that persists a configuration validates it before
\* save_config: whenever such a command writes a file of a configuration,
\* the path_to_app it persists is an existing directory; with a path_to_app
\* that is no directory nothing of the configuration is written.
C12_ValidatedBeforeSave ==
    [][\A p \in Procs :
          (Stepped(p) /\ proc'[p].cmd \in PersistingCmds)
              => \A n \in WrittenNames(fs, fs') :
                    /\ fs'[n].ini # Absent
                    /\ isdir(PersistedPath(fs', n), [latest |-> latest', apps |-> apps'])]_vars

\* process p has the lock of the configuration it runs
HoldsLock(p) ==
    \E h \in proc[p].handles : h.ino \in DOMAIN lockOwner /\ lockOwner[h.ino] = p

\* C13: in do_run_config the log is initialised before the child process
\* is spawned and the lock is released only after the child has been joined,
\* whether the command returns, raises or exits after the spawn or gets
\* Ctrl+C: the child never runs while the parent no longer holds the lock.
C13_LockHeldWhileChildRuns ==
    /\ [](\A p \in Procs : run[p].child = "running" => HoldsLock(p))
    /\ [][\A p \in Procs :
            (run[p].child = "none" /\ run'[p].child = "running")
                => run[p].log = "open"]_vars
    /\ [][\A p \in Procs :
            (proc[p].cmd = "run" /\ HoldsLock(p) /\ ~HoldsLock(p)')
                => run[p].child = "joined"]_vars

\* the cleanup of a clean exit: child stopped and joined, log closed without
\* a dump, lock released, status 0
Cleaned(p) ==
    /\ proc[p].pc = "returned"
    /\ proc[p].released
    /\ run[p].child = "joined"
    /\ run[p].log = "closed"
    /\ ~run[p].dumped

\* C14: after a SIGINT delivered at any moment of do_run_config after the
\* spawn, the command ends only by the cleanup of a clean exit, and it does
\* eventually end that way.
C14_SigintCleanExit ==
    \A p \in Procs :
        /\ []((run[p].sigint /\ proc[p].pc \in Ended) => Cleaned(p))
        /\ (run[p].sigint ~> Cleaned(p))

(***************************************************************************)
(* secure_config.py: provisioning with tools that may fail.  Configurations *)
(* are saved one after the other; in each save one of the external tool    *)
(* invocations may exit non-zero.                                          *)
(***************************************************************************)
\* the tool invocations among the steps
ToolSteps(steps) == {i \in 1..Len(steps) : steps[i].tool}

\* tool invocations of one provisioning: four of generate_ca, five of
\* generate_projector_jks, three of generate_http_cert
MaxFail ==
    Cardinality(ToolSteps(generate_ca_steps)) + Cardinality(ToolSteps(server_secret_steps))

ProvNames == {<<"a">>, <<"b">>}

ProvConfigs ==
    UNION {{BaseConfig(n), [BaseConfig(n) EXCEPT !.token = Tok(1)],
            [BaseConfig(n) EXCEPT !.token = Tok(2)]} : n \in ProvNames}

\* save_config(c) in which the fail-th tool invocation fails
ProvSave(c, fail) ==
    LET r == save_config(fs, ca, c, Ides, fail) IN
    /\ fs' = r.fs
    /\ ca' = r.ca
    /\ last' = [op |-> "save", cfg |-> Some(c), name |-> c.name, ok |-> ~r.raised,
                result |-> FALSE, fresh |-> ~r.raised]
    /\ UNCHANGED <<latest, apps, run, lockOwner, proc>>

ProvNext ==
    \/ \E c \in ProvConfigs, fail \in 0..MaxFail : ProvSave(c, fail)
    \/ \E n \in ProvNames : StoreDelete(n)

ProvSpec == StoreInit /\ [][ProvNext]_vars

CaFiles == {"ca.jks", "ca.crt", "ca.p12", "ca.key"}

C16_RetryAfterToolFailure ==
    (last.op = "save" /\ ~last.ok)
        => /\ ~are_exist_server_secrets(fs[last.name].sec)
           /\ ~save_config(fs, ca, last.cfg[1], Ides, 0).raised

(***************************************************************************)
(* config_generator.py, secure_config.py: save_config of a secure          *)
(* configuration by two processes, one check and one step of provisioning  *)
(* at a time.  proc[p].steps are the steps the process has still to run.   *)
(***************************************************************************)
RaceConfigs == {[BaseConfig(n) EXCEPT !.token = Tok(1)] : n \in Names}

\* save_config up to generate_run_script
save_config_begin(p, c) ==
    /\ Me(p).pc = "idle"
    /\ fs' = WithDir(fs, c.name,
                     generate_run_script([DirOf(fs, c.name) EXCEPT
                                             !.ini = Some(IniText(c)),
                                             !.props = @ \/ c.use_separate_config], c))
    /\ SetProc(p, [IdleProc EXCEPT !.cmd = "save", !.cfg = Some(c), !.pc = "ca_check"])
    /\ UNCHANGED <<ca, latest, apps, run, lockOwner, last>>

\* a check that waits while another process is inside generate_ca
generate_server_secrets_ca_check_locked(p) ==
    /\ Me(p).pc = "ca_check"
    /\ \A q \in Procs \ {p} : Me(q).pc = "generate_ca" => Me(q).steps = << >>
    /\ SetProc(p, [Me(p) EXCEPT !.pc = "generate_ca",
                                !.steps = IF is_ca_exist(ca) THEN << >>
                                          ELSE generate_ca_steps])
    /\ UNCHANGED <<fs, ca, latest, apps, run, lockOwner, last>>

\* generate_server_secrets: if not is_ca_exist()
generate_server_secrets_ca_check(p) ==
    /\ Me(p).pc = "ca_check"
    /\ SetProc(p, [Me(p) EXCEPT !.pc = "generate_ca",
                                !.steps = IF is_ca_exist(ca) THEN << >>
                                          ELSE generate_ca_steps])
    /\ UNCHANGED <<fs, ca, latest, apps, run, lockOwner, last>>

\* generate_server_secrets: if not are_exist_server_secrets(run_config.name)
generate_server_secrets_check(p) ==
    /\ Me(p).pc = "generate_ca"
    /\ Me(p).steps = << >>
    /\ MyCfg(p).name \in DOMAIN fs
    /\ SetProc(p, [Me(p) EXCEPT !.pc = "generate_secrets",
                                !.steps = IF are_exist_server_secrets(fs[MyCfg(p).name].sec)
                                          THEN << >> ELSE server_secret_steps])
    /\ UNCHANGED <<fs, ca, latest, apps, run, lockOwner, last>>

\* the next step of generate_ca or of the per-configuration provisioning
provision_step(p) ==
    /\ Me(p).pc \in {"generate_ca", "generate_secrets"}
    /\ Me(p).steps # << >>
    /\ MyCfg(p).name \in DOMAIN fs
    /\ LET s  == Head(Me(p).steps)
           n  == MyCfg(p).name
           st == [ca |-> ca, sec |-> fs[n].sec, raised |-> FALSE]
       IN  IF s.tool /\ ToolRefuses(st, s)
           THEN /\ SetProc(p, [Me(p) EXCEPT !.pc = "raised", !.steps = << >>])
                /\ UNCHANGED <<fs, ca>>
           ELSE LET st2 == ApplyStep(st, s, MyCfg(p).token) IN
                /\ ca' = st2.ca
                /\ fs' = [fs EXCEPT ![n].sec = st2.sec]
                /\ SetProc(p, [Me(p) EXCEPT !.steps = Tail(@)])
    /\ UNCHANGED <<latest, apps, run, lockOwner, last>>

\* save_config returns
save_config_return(p) ==
    /\ Me(p).pc = "generate_secrets"
    /\ Me(p).steps = << >>
    /\ SetProc(p, [Me(p) EXCEPT !.pc = "returned"])
    /\ UNCHANGED <<fs, ca, latest, apps, run, lockOwner, last>>

RaceNext ==
    \/ \E p \in Procs, c \in RaceConfigs : save_config_begin(p, c)
    \/ \E p \in Procs : generate_server_secrets_ca_check(p)
    \/ \E p \in Procs : generate_server_secrets_check(p)
    \/ \E p \in Procs : provision_step(p)
    \/ \E p \in Procs : save_config_return(p)
    \/ \E p \in Procs : ProcessExit(p)

RaceSpec == Init /\ [][RaceNext]_vars

\* the process is inside generate_ca with steps left
InGenerateCa(p) == Me(p).pc = "generate_ca" /\ Me(p).steps # << >>

\* C17: the only thing between a save and generate_ca is the check the save
\* makes itself: a process at its check can always go on, also while the
\* other process is inside generate_ca; it enters generate_ca exactly when
\* it finds ca.jks or ca.crt missing; inside generate_ca it is stopped only
\* by keytool -genkeypair finding the ca.jks the other process stored.  Each
\* process generates at most one CA.
C17_CaCheckNotAtomic ==
    /\ [](\A f \in DOMAIN ca : ca[f] \in 1..Cardinality(Procs))
    /\ [](\A p \in Procs :
            Me(p).pc = "ca_check" => ENABLED generate_server_secrets_ca_check(p))
    /\ [][\A p \in Procs :
            /\ (Me(p).pc = "ca_check" /\ proc'[p].pc = "generate_ca")
                  => (proc'[p].steps # << >>
                        <=> ~({"ca.jks", "ca.crt"} \subseteq DOMAIN ca))
            /\ (InGenerateCa(p) /\ proc'[p].pc = "raised")
                  => /\ Head(Me(p).steps).op = "genkeypair"
                     /\ "ca.jks" \in DOMAIN ca]_vars

\* both processes found no CA and each stored a key pair of its own
C17_Witness ==
    /\ is_ca_exist(ca)
    /\ \E f \in DOMAIN ca : ca[f] = 2
    /\ \A p \in Procs : Me(p).pc = "returned"
    /\ \E m \in DOMAIN fs, n \in DOMAIN fs :
          m # n /\ are_exist_server_secrets(fs[m].sec)
                /\ are_exist_server_secrets(fs[n].sec)

\* the configurations on the disk whose path_to_app is the directory of the
\* installed IDE app_name
RefersTo(f, app_name) ==
    {n \in DOMAIN f : /\ Loadable(f, n)
                      /\ NormPath(Loaded(f, n).path_to_app) = get_app_path(app_name)}

\* C18: no step removes the directory of an installed IDE while a
\* configuration on the disk refers to it, be it do_uninstall_app or the
\* uninstall at the end of do_remove_config; an uninstall that finds such a
\* configuration ends with a non-zero status.
C18_NoUninstallWhileReferenced ==
    [][\A a \in apps \ apps' :
          /\ RefersTo(fs', a) = {}
          /\ \A p \in Procs : proc'[p] # proc[p] => proc'[p].pc = "returned"]_vars

(***************************************************************************)
(* run_config.py: the store on a disk that has faults.  A config.ini may   *)
(* be missing (removed by hand, or a directory that holds no               *)
(* configuration), and the operating system may refuse to change a         *)
(* configuration directory (permission denied).                            *)
(***************************************************************************)
FaultConfigs ==
    UNION {{BaseConfig(n), [BaseConfig(n) EXCEPT !.password = <<"p">>,
                                                 !.ro_password = <<"p">>]}
           : n \in ConfigNames}

\* config.ini of the configuration disappears
RemoveIni(config_name) ==
    /\ config_name \in DOMAIN fs
    /\ fs[config_name].ini # Absent
    /\ fs' = [fs EXCEPT ![config_name].ini = Absent]
    /\ UNCHANGED <<ca, latest, apps, lockOwner, proc, run, last>>

\* get_run_configs() called by the sequential caller
StoreList ==
    \E o \in get_run_configs(fs, << >>) :
       /\ last' = [NoCall EXCEPT !.op = "list", !.ok = o.ok]
       /\ UNCHANGED <<fs, ca, latest, apps, lockOwner, proc, run>>

\* delete_config(config_name) when the operating system refuses to remove
\* anything of the directory: rmtree(..., ignore_errors=True) returns
StoreDeleteDenied(config_name) ==
    /\ config_name \in DOMAIN fs
    /\ last' = [NoCall EXCEPT !.op = "delete_denied", !.name = config_name,
                              !.ok = TRUE]
    /\ UNCHANGED <<fs, ca, latest, apps, lockOwner, proc, run>>

\* rename_config(from_name, to_name) when the operating system refuses:
\* os.rename raises OSError
StoreRenameDenied(from_name, to_name) ==
    /\ from_name \in DOMAIN fs
    /\ last' = [NoCall EXCEPT !.op = "rename_denied", !.name = from_name,
                              !.ok = FALSE]
    /\ UNCHANGED <<fs, ca, latest, apps, lockOwner, proc, run>>

FaultNext ==
    \/ \E c \in FaultConfigs : StoreSave(c)
    \/ \E n \in ConfigNames : StoreDelete(n)
    \/ \E n \in ConfigNames : RemoveIni(n)
    \/ StoreList
    \/ \E n \in ConfigNames : StoreDeleteDenied(n)
    \/ \E a \in ConfigNames, b \in ConfigNames : StoreRenameDenied(a, b)

FaultSpec == StoreInit /\ [][FaultNext]_vars

\* C19: a configuration whose config.ini cannot be loaded is the only one
\* the enumeration loses: get_run_configs does not raise, and returns every
\* configuration whose config.ini is well-formed.
C19_EnumerationSurvivesBadConfig ==
    \A o \in get_run_configs(fs, << >>) :
       /\ o.ok
       /\ \A n \in DOMAIN fs :
             Loadable(fs, n) => (n \in DOMAIN o.res /\ o.res[n] = Loaded(fs, n))

\* C20: rename_config and delete_config raise when the operating system
\* refuses the operation: the caller of a refused delete or rename does not
\* see the call return normally, and the directory is still there.
C20_OsFailureRaises ==
    (last.op \in {"delete_denied", "rename_denied"})
        => (~last.ok /\ last.name \in DOMAIN fs)

(***************************************************************************)
(* secure_config.py: subject alternative names of the server certificates. *)
(* An address is a sequence of characters; the digits and the dot are      *)
(* single characters, a word is one atom.                                  *)
(***************************************************************************)
RECURSIVE SplitDots(_, _)
\* the parts of s between the dots, the part read so far being cur
SplitDots(s, cur) ==
    IF s = << >> THEN <<cur>>
    ELSE IF Head(s) = "." THEN <<cur>> \o SplitDots(Tail(s), << >>)
    ELSE SplitDots(Tail(s), Append(cur, Head(s)))

\* ([0-9]|[1-9][0-9]|1[0-9]{2}|2[0-4][0-9]|25[0-5])
IsOctet(part) ==
    /\ IsInt(part)
    /\ \/ Len(part) = 1
       \/ Len(part) = 2 /\ part[1] # "0"
       \/ Len(part) = 3 /\ part[1] = "1"
       \/ Len(part) = 3 /\ part[1] = "2" /\ part[2] \in {"0", "1", "2", "3", "4"}
       \/ Len(part) = 3 /\ part[1] = "2" /\ part[2] = "5"
                        /\ part[3] \in {"0", "1", "2", "3", "4", "5"}

\* is_ip_address(address)
is_ip_address(address) ==
    LET parts == SplitDots(address, << >>)
    IN  Len(parts) = 4 /\ \A i \in 1..4 : IsOctet(parts[i])

ADDR_ANY == <<"0", ".", "0", ".", "0", ".", "0">>
ADDR_LOOPBACK == <<"1", "2", "7", ".", "0", ".", "0", ".", "1">>
LOCALHOST == <<"localhost">>

SeqElems(s) == {s[i] : i \in 1..Len(s)}

\* a loopback name that is appended whatever the lists hold
get_san_alt_names_always_localhost(address, local) ==
    LET ip0 == IF address = ADDR_ANY THEN local
               ELSE IF is_ip_address(address) THEN <<address>> ELSE << >>
        n0  == IF address = ADDR_ANY \/ is_ip_address(address) THEN << >>
               ELSE <<address>>
        n1  == Append(n0, LOCALHOST)
        ip1 == IF LOCALHOST \in SeqElems(n1) /\ ADDR_LOOPBACK \notin SeqElems(ip0)
               THEN Append(ip0, ADDR_LOOPBACK) ELSE ip0
    IN  [ips |-> ip1, names |-> n1]

\* get_san_alt_names(address), local being what get_local_addresses() returns
get_san_alt_names(address, local) ==
    LET ip0 == IF address = ADDR_ANY THEN local
               ELSE IF is_ip_address(address) THEN <<address>> ELSE << >>
        n0  == IF address = ADDR_ANY \/ is_ip_address(address) THEN << >>
               ELSE <<address>>
        n1  == IF ADDR_LOOPBACK \in SeqElems(ip0) /\ LOCALHOST \notin SeqElems(n0)
               THEN Append(n0, LOCALHOST) ELSE n0
        ip1 == IF LOCALHOST \in SeqElems(n1) /\ ADDR_LOOPBACK \notin SeqElems(ip0)
               THEN Append(ip0, ADDR_LOOPBACK) ELSE ip0
    IN  [ips |-> ip1, names |-> n1]

ADDR_LAN == <<"1", "9", "2", ".", "1", "6", "8", ".", "1", ".", "5">>
ADDR_VPN == <<"1", "0", ".", "0", ".", "0", ".", "2", "5", "5">>

\* the addresses a configuration may listen on: literals, names, and
\* strings that look like a literal without being one
SanAddresses ==
    {ADDR_ANY, ADDR_LOOPBACK, LOCALHOST, ADDR_LAN, ADDR_VPN,
     <<"LOCALHOST">>, <<"example", ".", "com">>,
     <<"2", "5", "6", ".", "1", ".", "1", ".", "1">>,
     <<"0", "1", ".", "2", ".", "3", ".", "4">>,
     <<"1", ".", "2", ".", "3">>,
     <<"1", ".", "2", ".", "3", ".", "4", ".", "5">>,
     <<"1", ".", ".", "3", ".", "4">>}

\* what get_local_addresses() may return: the loopback interface and the
\* other interfaces of the machine, in the order netifaces lists them
LocalAddressLists ==
    UNION {Orders({ADDR_LOOPBACK} \cup S) : S \in SUBSET {ADDR_LAN, ADDR_VPN}}

SanCall(address, local) ==
    /\ last' = [op |-> "get_san_alt_names", address |-> address, local |-> local,
                res |-> get_san_alt_names(address, local)]
    /\ UNCHANGED <<fs, ca, latest, apps, lockOwner, proc, run>>

SanNext == \E address \in SanAddresses, local \in LocalAddressLists : SanCall(address, local)

SanSpec == StoreInit /\ [][SanNext]_vars

auto_add_password_pair(password, ro_password) ==
    [password |-> password,
     ro_password |-> IF password # << >> /\ ro_password = << >>
                     THEN password ELSE ro_password]

\* get_quick_config draws two passwords with generate_random_password()
QuickPasswords == [password |-> <<"rnd1">>, ro_password |-> <<"rnd2">>]

\* do_auto_install: the passwords of get_quick_config unless one is given
auto_install_password_pair(password, ro_password) ==
    IF password # << >>
    THEN [password |-> password,
          ro_password |-> IF ro_password # << >> THEN ro_password ELSE password]
    ELSE QuickPasswords

\* enter_password(prompt, default): what was typed, the default for nothing
enter_password(typed, default) ==
    IF typed = << >> /\ default # << >> THEN default ELSE typed

\* select_password(prompt, default): the loop ends when the password and its
\* repetition are the same; typed is what was entered both times
select_password(typed, default) == enter_password(typed, default)

\* select_password_pair(def_password, def_ro_password) with the answers of
\* the user
select_password_pair(need_password, typed, need_ro_password, typed_ro, def_password, def_ro_password) ==
    IF ~need_password THEN [password |-> << >>, ro_password |-> << >>]
    ELSE LET password == select_password(typed, def_password)
         IN  [password |-> password,
              ro_password |-> IF need_ro_password
                              THEN select_password(typed_ro, def_ro_password)
                              ELSE password]

\* what a user types, or gives on the command line, for a password
TypedPasswords == {<< >>, <<"p">>, <<"r">>}

WithPasswords(c, pair) ==
    [c EXCEPT !.password = pair.password, !.ro_password = pair.ro_password]

\* do_auto_add_config --password --ro-password
PwAutoAdd(config_name, password, ro_password) ==
    StoreSave(WithPasswords(BaseConfig(config_name),
                            auto_add_password_pair(password, ro_password)))

\* do_auto_install --password --ro-password
PwAutoInstall(config_name, password, ro_password) ==
    StoreSave(WithPasswords(BaseConfig(config_name),
                            auto_install_password_pair(password, ro_password)))

\* make_run_config / get_user_install_input: the dialog without defaults
PwDialogNew(config_name, need_password, typed, need_ro_password, typed_ro) ==
    StoreSave(WithPasswords(BaseConfig(config_name),
                            select_password_pair(need_password, typed, need_ro_password,
                                                 typed_ro, << >>, << >>)))

\* edit_config: the dialog with the passwords of the loaded configuration
PwDialogEdit(config_name, need_password, typed, need_ro_password, typed_ro) ==
    /\ config_name \in DOMAIN fs
    /\ Loadable(fs, config_name)
    /\ LET c == Loaded(fs, config_name)
       IN  StoreSave(WithPasswords(c,
                         select_password_pair(need_password, typed, need_ro_password,
                                              typed_ro, c.password, c.ro_password)))

PwNext ==
    \/ \E n \in ProvNames, pw \in TypedPasswords, ro \in TypedPasswords :
          PwAutoAdd(n, pw, ro)
    \/ \E n \in ProvNames, pw \in TypedPasswords, ro \in TypedPasswords :
          PwAutoInstall(n, pw, ro)
    \/ \E n \in ProvNames, np \in BOOLEAN, pw \in TypedPasswords,
          nr \in BOOLEAN, ro \in TypedPasswords : PwDialogNew(n, np, pw, nr, ro)
    \/ \E n \in ProvNames, np \in BOOLEAN, pw \in TypedPasswords,
          nr \in BOOLEAN, ro \in TypedPasswords : PwDialogEdit(n, np, pw, nr, ro)

PwSpec == StoreInit /\ [][PwNext]_vars

\* C22: no configuration on the disk has a password and an empty read-only
\* password, and none was handed to save_config.
C22_RoPasswordNormalized ==
    /\ \A n \in DOMAIN fs :
          Loadable(fs, n)
             => (Loaded(fs, n).password # << >> => Loaded(fs, n).ro_password # << >>)
    /\ (last.op = "save")
          => (LastCfg.password # << >> => LastCfg.ro_password # << >>)

(***************************************************************************)
(* secure_config.py: backup of the CA keystore across upgrades of the      *)
(* installer.  The three operations are exercised by secure_config_test.py *)
(* and described in the specification of the installer.                    *)
(***************************************************************************)
CA_JKS == "ca.jks"
CA_JKS_BACKUP == "ca.jks.backup"

RemoveFile(files, f) == [g \in (DOMAIN files) \ {f} |-> files[g]]

\* make_ca_backup(): copies ca.jks to ca.jks.backup
make_ca_backup(files) ==
    IF CA_JKS \in DOMAIN files
    THEN [ok |-> TRUE, ca |-> PutFile(files, CA_JKS_BACKUP, files[CA_JKS])]
    ELSE [ok |-> FALSE, ca |-> files]

\* a restore that leaves an existing ca.jks alone
restore_ca_backup_if_missing(files) ==
    IF CA_JKS_BACKUP \in DOMAIN files
    THEN [ok |-> TRUE,
          ca |-> IF CA_JKS \in DOMAIN files THEN files
                 ELSE PutFile(files, CA_JKS, files[CA_JKS_BACKUP])]
    ELSE [ok |-> FALSE, ca |-> files]

\* restore_ca_backup(): copies ca.jks.backup to ca.jks
restore_ca_backup(files) ==
    IF CA_JKS_BACKUP \in DOMAIN files
    THEN [ok |-> TRUE, ca |-> PutFile(files, CA_JKS, files[CA_JKS_BACKUP])]
    ELSE [ok |-> FALSE, ca |-> files]

\* remove_ca_backup(): removes ca.jks.backup
remove_ca_backup(files) ==
    IF CA_JKS_BACKUP \in DOMAIN files
    THEN [ok |-> TRUE, ca |-> RemoveFile(files, CA_JKS_BACKUP)]
    ELSE [ok |-> FALSE, ca |-> files]

\* what is remembered of the calls: saved is the keystore the last
\* successful make_ca_backup() found (0: none), changed whether the keystore
\* was replaced or removed since
Saved == IF "saved" \in DOMAIN last THEN last.saved ELSE 0
Changed == IF "changed" \in DOMAIN last THEN last.changed ELSE FALSE

\* a call of one of the three
BackupCall(op, r) ==
    /\ ca' = r.ca
    /\ last' = [op |-> op, ok |-> r.ok,
                saved |-> IF op = "make" /\ r.ok THEN ca[CA_JKS]
                          ELSE IF op = "remove" /\ r.ok THEN 0
                          ELSE Saved,
                changed |-> IF op = "make" /\ r.ok THEN FALSE ELSE Changed]
    /\ UNCHANGED <<fs, latest, apps, lockOwner, proc, run>>

MakeBackup == BackupCall("make", make_ca_backup(ca))
RestoreBackup == BackupCall("restore", restore_ca_backup(ca))
RemoveBackup == BackupCall("remove", remove_ca_backup(ca))

\* the upgrade replaces the keystore by the keystore of another CA
ReplaceKeystore ==
    /\ \E n \in 1..MaxCa :
          /\ CA_JKS \in DOMAIN ca => ca[CA_JKS] # n
          /\ ca' = PutFile(ca, CA_JKS, n)
    /\ last' = [op |-> "replace", ok |-> TRUE, saved |-> Saved, changed |-> TRUE]
    /\ UNCHANGED <<fs, latest, apps, lockOwner, proc, run>>

\* the upgrade removes the keystore
RemoveKeystore ==
    /\ CA_JKS \in DOMAIN ca
    /\ ca' = RemoveFile(ca, CA_JKS)
    /\ last' = [op |-> "unlink", ok |-> TRUE, saved |-> Saved, changed |-> TRUE]
    /\ UNCHANGED <<fs, latest, apps, lockOwner, proc, run>>

BackupNext ==
    \/ MakeBackup
    \/ RestoreBackup
    \/ RemoveBackup
    \/ ReplaceKeystore
    \/ RemoveKeystore

BackupSpec == StoreInit /\ [][BackupNext]_vars

\* C23: make_ca_backup succeeds exactly when ca.jks exists and then adds
\* ca.jks.backup with the content of ca.jks, restore_ca_backup succeeds
\* exactly when the backup exists and then gives ca.jks the content of the
\* backup, remove_ca_backup succeeds exactly when the backup exists and then
\* removes it; a call that fails changes nothing; after a successful restore
\* ca.jks is the keystore the last backup found.
C23_CaBackupProtocol ==
    /\ []((CA_JKS_BACKUP \in DOMAIN ca) => ca[CA_JKS_BACKUP] = Saved)
    /\ [][(last' # last) =>
            /\ ~last'.ok => ca' = ca
            /\ (last'.op = "restore" /\ last'.ok)
                  => (CA_JKS \in DOMAIN ca' /\ ca'[CA_JKS] = Saved)
            /\ (last'.op = "make")
                  => /\ last'.ok <=> CA_JKS \in DOMAIN ca
                     /\ last'.ok => ca' = PutFile(ca, CA_JKS_BACKUP, ca[CA_JKS])
            /\ (last'.op = "restore")
                  => /\ last'.ok <=> CA_JKS_BACKUP \in DOMAIN ca
                     /\ last'.ok => ca' = PutFile(ca, CA_JKS, ca[CA_JKS_BACKUP])
            /\ (last'.op = "remove")
                  => /\ last'.ok <=> CA_JKS_BACKUP \in DOMAIN ca
                     /\ last'.ok => (/\ CA_JKS_BACKUP \notin DOMAIN ca'
                                     /\ \A f \in DOMAIN ca' : f \in DOMAIN ca /\ ca'[f] = ca[f]
                                     /\ DOMAIN ca \ {CA_JKS_BACKUP} \subseteq DOMAIN ca')]_vars

\* a restore brought back the first keystore after the upgrade had put
\* another one in its place
C23_Witness ==
    /\ last.op = "restore"
    /\ last.ok
    /\ last.saved = 1
    /\ last.changed
    /\ ca = (CA_JKS :> 1 @@ CA_JKS_BACKUP :> 1)

(***************************************************************************)
(* actions.py, dialogs.py: creating a configuration, the choice of the     *)
(* name and the save as the separate steps they are (a dialog, or the      *)
(* download of the IDE, lies between them).                                *)
(***************************************************************************)
RECURSIVE unused_name_from(_, _, _)
\* the while loop of select_unused_config_name
unused_name_from(run_configs, hint, cnt) ==
    LET res == IF cnt = 0 THEN hint ELSE hint \o <<"_">> \o IntToStr(cnt)
    IN  IF res \in run_configs THEN unused_name_from(run_configs, hint, cnt + 1)
        ELSE res

\* select_unused_config_name(hint) on the result o of get_run_configs()
select_unused_config_name(o, hint) == unused_name_from(DOMAIN o.res, hint, 0)

\* the names a user gives or accepts
CreateNames == {<<"a">>, <<"a", "_", "1">>}

\* the step that settles the name of the new configuration:
\*   "auto_add"  do_auto_add_config without --force: config_name in get_run_configs()
\*   "auto_install"  do_auto_install: config_name in get_run_configs(config_name),
\*               then get_quick_config -> select_unused_config_name
\*   "quick"     do_add_config / do_install_app in quick mode: get_quick_config
\*   "dialog"    select_new_config_name: the name typed is refused while it
\*               is in the snapshot of get_run_configs()
create_select_name(p, kind, config_name) ==
    /\ Me(p).pc = "idle"
    /\ Cardinality(DOMAIN fs) < MaxConfigs
    /\ \E o \in get_run_configs(fs, << >>),
          o1 \in get_run_configs(fs, config_name) :
          LET me == [IdleProc EXCEPT !.cmd = kind]
              taken == IF kind = "auto_install" THEN config_name \in DOMAIN o1.res
                       ELSE config_name \in DOMAIN o.res
              name == IF kind \in {"quick", "auto_install"}
                      THEN select_unused_config_name(o, config_name)
                      ELSE config_name
          IN  IF ~o.ok \/ (kind = "auto_install" /\ ~o1.ok)
              THEN SetProc(p, [me EXCEPT !.pc = "raised"])
              ELSE IF kind \in {"auto_add", "auto_install", "dialog"} /\ taken
              THEN SetProc(p, [me EXCEPT !.pc = "sysexit"])
              ELSE SetProc(p, [me EXCEPT !.pc = "create_save",
                                         !.cfg = Some(BaseConfig(name))])
    /\ UNCHANGED <<fs, ca, latest, apps, run, lockOwner, last>>

\* save_config(run_config) at the end of the creation
create_save(p) ==
    /\ Me(p).pc = "create_save"
    /\ LET r == save_config(fs, ca, MyCfg(p), Ides, 0)
       IN  /\ fs' = r.fs
           /\ ca' = r.ca
           /\ SetProc(p, [Me(p) EXCEPT !.pc = IF r.raised THEN "raised" ELSE "returned",
                                       !.wrote = TRUE])
    /\ UNCHANGED <<latest, apps, run, lockOwner, last>>

CreateKinds == {"auto_add", "auto_install", "quick", "dialog"}

CreateNext ==
    \/ \E p \in Procs, k \in CreateKinds, n \in CreateNames : create_select_name(p, k, n)
    \/ \E p \in Procs : create_save(p)
    \/ \E p \in Procs : ProcessExit(p)
    \/ \E n \in DOMAIN fs : StoreDelete(n)

CreateSpec == Init /\ [][CreateNext]_vars

\* C24: a creation command saves under a name that is not the name of a
\* configuration on the disk at the moment of the save.
C24_CreateNeverOverwrites ==
    [][\A p \in Procs :
          (Me(p).pc = "create_save" /\ proc'[p].pc # "create_save")
             => MyCfg(p).name \notin DOMAIN fs]_vars

(***************************************************************************)
(* actions.py: the lock while a directory is deleted or renamed            *)
(***************************************************************************)
\* process q has an open lock handle for configuration n with the lock on it
HoldsLockOn(q, n) ==
    \E h \in proc[q].handles :
        h.name = n /\ h.ino \in DOMAIN lockOwner /\ lockOwner[h.ino] = q

\* C25: a process deletes or renames the directory of a configuration only
\* while it holds that configuration's lock itself, and never while another
\* process holds a live lock handle for the same configuration.
C25_LockedWhileRemoved ==
    [][\A p \in Procs :
          Stepped(p)
             => \A n \in (DOMAIN fs) \ (DOMAIN fs') :
                   /\ HoldsLockOn(p, n)
                   /\ \A q \in Procs \ {p} : ~HoldsLockOn(q, n)]_vars

(***************************************************************************)
(* actions.py: renames and creations that aim at the same directory        *)
(***************************************************************************)
\* two source names and one target name
TargetNames == Names \cup {<<"c">>}

\* the IDEs the configurations are created for
TargetApps == {IDEA_PATH, MPS_PATH}

\* do_auto_add_config up to its name check; the save follows in create_save
do_auto_add_config_check(p, config_name, app_path) ==
    /\ Me(p).pc = "idle"
    /\ \E o \in get_run_configs(fs, << >>) :
          LET me == [IdleProc EXCEPT !.cmd = "auto_add"]
          IN  IF ~o.ok
              THEN SetProc(p, [me EXCEPT !.pc = "raised"])
              ELSE IF config_name \in DOMAIN o.res
              THEN SetProc(p, [me EXCEPT !.pc = "sysexit"])
              ELSE SetProc(p, [me EXCEPT !.pc = "create_save",
                                  !.cfg = Some([BaseConfig(config_name) EXCEPT
                                                   !.path_to_app = app_path])])
    /\ UNCHANGED <<fs, ca, latest, apps, run, lockOwner, last>>

TargetNext ==
    \/ \E p \in Users, n \in TargetNames, a \in TargetApps :
          do_auto_add_config_check(p, n, a)
    \/ \E p \in Users : create_save(p)
    \/ \E p \in Procs, a \in Names, b \in TargetNames : do_rename_config_check(p, a, b)
    \/ \E p \in Procs : do_rename_config_lock(p)
    \/ \E p \in Procs : do_rename_config_rename(p)
    \/ \E p \in Procs : ProcessExit(p)

TargetSpec == Init /\ [][TargetNext]_vars

\* C26: renames and creations that aim at the same name never both take
\* effect on one directory: no step changes the files of a directory that
\* exists before and after it, so every directory keeps the config.ini it
\* was created or renamed with.
C26_TargetNotShared ==
    [][\A n \in (DOMAIN fs) \cap (DOMAIN fs') : FilesOf(fs')[n] = FilesOf(fs)[n]]_vars

(***************************************************************************)
(* config_generator.py: write_run_script on arbitrary launch scripts       *)
(***************************************************************************)
\* the lines a vendor launch script is made of: plain lines, lines with one
\* of the markers the rewrite looks for, and lines with two of them
ScriptLines ==
    { SrcLine(<<"#!/bin/sh">>, {}),
      SrcLine(<<"\"$@\"">>, {}),
      SrcLine(<<"IDE_BIN_HOME=...">>, {"IDE_BIN_HOME"}),
      SrcLine(<<"-classpath ...">>, {"classpath"}),
      SrcLine(<<"${IDE_PROPERTIES_PROPERTY}">>, {"IDE_PROPERTIES_PROPERTY"}),
      SrcLine(<<"com.intellij.idea.Main">>, {"IDEA_RUN_CLASS"}),
      SrcLine(<<"${MAIN_CLASS}">>, {"MPS_MAIN_CLASS"}),
      SrcLine(<<"-classpath com.intellij.idea.Main">>, {"classpath", "IDEA_RUN_CLASS"}),
      SrcLine(<<"${IDE_PROPERTIES_PROPERTY} ${MAIN_CLASS}">>,
              {"IDE_PROPERTIES_PROPERTY", "MPS_MAIN_CLASS"}) }

Scripts == UNION {[1..n -> ScriptLines] : n \in 0..MaxScript}

\* the configurations the script is written for
ScriptConfigs ==
    {[BaseConfig(<<"a">>) EXCEPT !.projector_host = h, !.token = t, !.password = pw,
                                 !.ro_password = pw, !.use_separate_config = s] :
        h \in {HOST_ALL, LOCALHOST}, t \in {<< >>, Tok(1)},
        pw \in {<< >>, <<"p">>, <<"p", " ", "q">>}, s \in BOOLEAN}

\* write_run_script(run_config, src, dst); dst is recorded with the call.
\* The function keeps no state, so a behaviour is one call.
ScriptCall(c, src) ==
    /\ last = NoCall
    /\ last' = [op |-> "write_run_script", cfg |-> c, src |-> src,
                dst |-> write_run_script(c, src)]
    /\ UNCHANGED <<fs, ca, latest, apps, lockOwner, proc, run>>

ScriptNext ==
    /\ last = NoCall
    /\ \E c \in ScriptConfigs, src \in Scripts : ScriptCall(c, src)

ScriptSpec == StoreInit /\ [][ScriptNext]_vars

\* the line has -D<name>=... among its properties
HasProp(line, name) == \E k \in 1..Len(line.props) : line.props[k][1] = name

\* no branch of the rewrite applies to the source line
MatchesNoRule(c, line) ==
    /\ line.marks \cap {"IDE_BIN_HOME", "classpath", "IDEA_RUN_CLASS", "MPS_MAIN_CLASS"} = {}
    /\ ~(c.use_separate_config /\ "IDE_PROPERTIES_PROPERTY" \in line.marks)

\* C27: write_run_script writes one line per input line, in order; a line
\* that matches no rewrite rule is copied unchanged; a launch block has the
\* host property iff projector_host is not HOST_ALL, the SSL properties
\* pointer iff the configuration is secure, both token properties iff it is
\* password protected; the script of an insecure configuration has no SSL
\* property in any line.
C27_RunScript ==
    last.op = "write_run_script" =>
        LET c == last.cfg
            src == last.src
            dst == last.dst
        IN  /\ Len(dst) = Len(src)
            /\ \A i \in 1..Len(src) :
                  /\ MatchesNoRule(c, src[i])
                        => dst[i] = [t |-> "copy", text |-> src[i].text, props |-> << >>]
                  /\ dst[i].t = "launch" =>
                        /\ HasProp(dst[i], "-DHOST=") <=> (c.projector_host # HOST_ALL)
                        /\ HasProp(dst[i], "-DSSL_PROPERTIES_PATH=") <=> (c.token # << >>)
                        /\ HasProp(dst[i], "-DHANDSHAKE_TOKEN=") <=> (c.password # << >>)
                        /\ HasProp(dst[i], "-DRO_HANDSHAKE_TOKEN=") <=> (c.password # << >>)
                  /\ c.token = << >> => ~HasProp(dst[i], "-DSSL_PROPERTIES_PATH=")

C27_Witness ==
    /\ last.op = "write_run_script"
    /\ Len(last.src) = MaxScript
    /\ last.cfg.token = << >> /\ last.cfg.password # << >>
    /\ last.cfg.projector_host # HOST_ALL
    /\ \E i, j \in 1..Len(last.src) :
          /\ MatchesNoRule(last.cfg, last.src[i]) /\ last.dst[i].t = "copy"
          /\ i < j /\ last.dst[j].t = "launch"
          /\ HasProp(last.dst[j], "-DRO_HANDSHAKE_TOKEN=")

(***************************************************************************)
(* dialogs.py: the port offered for a new configuration                    *)
(***************************************************************************)
RECURSIVE sort(_)
\* list.sort(): ascending order, duplicates kept
sort(ports) ==
    IF ports = << >> THEN << >>
    ELSE LET m == CHOOSE i \in 1..Len(ports) : \A j \in 1..Len(ports) : ports[i] <= ports[j]
         IN  <<ports[m]>> \o sort([k \in 1..(Len(ports) - 1) |->
                                      IF k < m THEN ports[k] ELSE ports[k + 1]])

\* is_open_port(port), listening being get_all_listening_ports()
is_open_port(port, listening) == port \in listening

RECURSIVE first_closed_port(_, _)
\* while is_open_port(port): port += 1
first_closed_port(port, listening) ==
    IF is_open_port(port, listening) THEN first_closed_port(port + 1, listening)
    ELSE port

get_def_port_ignoring_configs(ports, default, listening) ==
    first_closed_port(default, listening)

get_def_port(ports, default, listening) ==
    first_closed_port(IF Len(ports) > 0 THEN sort(ports)[Len(ports)] + 1 ELSE default,
                      listening)

PortLists == UNION {[1..n -> 1..MaxPort] : n \in 0..MaxPorts}

\* get_def_port(ports, default) while the sockets in listening are in LISTEN
\* state.  The function keeps no state, so a behaviour is one call.
PortCall(ports, default, listening) ==
    /\ last = NoCall
    /\ last' = [op |-> "get_def_port", ports |-> ports, default |-> default,
                listening |-> listening,
                res |-> get_def_port(ports, default, listening)]
    /\ UNCHANGED <<fs, ca, latest, apps, lockOwner, proc, run>>

PortNext ==
    /\ last = NoCall
    /\ \E ports \in PortLists, default \in 1..MaxPort, listening \in SUBSET (1..MaxPort) :
          PortCall(ports, default, listening)

PortSpec == StoreInit /\ [][PortNext]_vars

PriorHandlers == {"SIG_DFL", "SIG_IGN"}

\* positions outside wrapped()
OutsideWrapped == {"call", "caller", "fallback", "done", "raised"}

\* check_for_projector_updates is about to call get_latest_version_fast
TimeoutStart(prior) ==
    [op |-> "timeout", fn |-> "get_latest_version_fast", pc |-> "call",
     timer |-> 0, handler |-> prior, prior |-> prior, old_handler |-> prior,
     exc |-> "none", exit |-> "none", thrown |-> "none"]

TimeoutInit ==
    /\ fs = EmptyFn
    /\ ca = EmptyFn
    /\ latest = 1
    /\ apps = AppsAtStart
    /\ run = EmptyFn
    /\ lockOwner = EmptyFn
    /\ proc = EmptyFn
    /\ \E prior \in PriorHandlers : last = TimeoutStart(prior)

TimeoutStep(r) ==
    /\ last' = r
    /\ UNCHANGED <<fs, ca, latest, apps, lockOwner, proc, run>>

\* old_handler = signal(SIGALRM, signal_handler)
wrapped_signal ==
    /\ last.pc = "call"
    /\ TimeoutStep([last EXCEPT !.pc = "setitimer", !.old_handler = last.handler,
                                !.handler = "signal_handler",
                                !.exc = "none", !.exit = "none"])

\* setitimer(ITIMER_REAL, interval, 0)
wrapped_setitimer ==
    /\ last.pc = "setitimer"
    /\ TimeoutStep([last EXCEPT !.pc = "try", !.timer = MaxTicks])

\* try: the call of the decorated function begins
wrapped_try ==
    /\ last.pc = "try"
    /\ TimeoutStep([last EXCEPT !.pc = "function"])

\* res = function(*args, **kwargs): the function returns or raises
wrapped_function(raises) ==
    /\ last.pc = "function"
    /\ TimeoutStep([last EXCEPT !.pc = "finally_setitimer",
                                !.exc = IF raises THEN "Error" ELSE "none"])

\* finally: setitimer(ITIMER_REAL, 0, 0)
wrapped_finally_setitimer ==
    /\ last.pc = "finally_setitimer"
    /\ TimeoutStep([last EXCEPT !.pc = "finally_signal", !.timer = 0])

\* signal(SIGALRM, old_handler); return res, or the exception goes on
wrapped_finally_signal ==
    /\ last.pc = "finally_signal"
    /\ TimeoutStep([last EXCEPT !.pc = "caller", !.handler = last.old_handler,
                                !.exit = IF last.exc = "none" THEN "return" ELSE last.exc])

\* the clock advances while the timer is armed
timer_tick ==
    /\ last.timer > 1
    /\ TimeoutStep([last EXCEPT !.timer = @ - 1])

\* the timer expires (it is one-shot) and SIGALRM is delivered between two
\* statements: signal_handler raises TimeoutException where the process is.
\* Inside the try block the finally clause runs next; before the try block
\* and inside the finally clause the exception leaves wrapped() at once.
signal_handler ==
    /\ last.timer = 1
    /\ last.handler = "signal_handler"
    /\ TimeoutStep([last EXCEPT
          !.timer = 0, !.thrown = last.pc,
          !.exc = "TimeoutException",
          !.pc = IF last.pc = "function" THEN "finally_setitimer"
                 ELSE IF last.pc \in {"try", "finally_setitimer"} THEN "caller"
                 ELSE @,
          !.exit = IF last.pc \in {"try", "finally_setitimer"}
                   THEN "TimeoutException" ELSE @])

\* check_for_projector_updates, check_ide_update: except TimeoutException
\* starts the check with the long network timeout, any other exception
\* goes on, a result goes to the message
check_except ==
    /\ last.pc = "caller"
    /\ TimeoutStep([last EXCEPT !.pc = IF last.exit = "TimeoutException" THEN "fallback"
                                       ELSE IF last.exit = "Error" THEN "raised"
                                       ELSE "done"])

\* get_latest_installer_version(LONG_NETWORK_TIMEOUT), get_update(run_config)
check_fallback ==
    /\ last.pc = "fallback"
    /\ TimeoutStep([last EXCEPT !.pc = "done"])

\* do_run_config goes on to check_ide_update, which calls get_fast_update
check_next ==
    /\ last.pc = "done"
    /\ last.fn = "get_latest_version_fast"
    /\ TimeoutStep([last EXCEPT !.pc = "call", !.fn = "get_fast_update"])

TimeoutNext ==
    \/ wrapped_signal
    \/ wrapped_setitimer
    \/ wrapped_try
    \/ \E raises \in BOOLEAN : wrapped_function(raises)
    \/ wrapped_finally_setitimer
    \/ wrapped_finally_signal
    \/ timer_tick
    \/ signal_handler
    \/ check_except
    \/ check_fallback
    \/ check_next

TimeoutSpec == TimeoutInit /\ [][TimeoutNext]_vars

\* C29: outside a wrapped call the interval timer is disarmed and SIGALRM
\* has the handler it had before the call, however the call ended, and
\* TimeoutException is never raised outside a wrapped call, the fallback
\* check included.
C29_TimerDisarmedHandlerRestored ==
    /\ last.pc \in OutsideWrapped =>
          /\ last.timer = 0
          /\ last.handler = last.prior
    /\ last.thrown \notin OutsideWrapped

(***************************************************************************)
(* log_utils.py: the log file of a configuration over several sessions.    *)
(* A file object is its content and its position; the log on the disk is   *)
(* kept in last.log.                                                       *)
(***************************************************************************)
MAX_LOG_FILE_SIZE == MaxLogSize

\* the longest log a session leaves behind
MaxLog == MAX_LOG_FILE_SIZE + 2

START_SESSION_MARK == "mark"

\* open(name, 'w+'): the file is truncated to nothing when it is opened
open_w_plus(content) == [content |-> << >>, pos |-> 0]

\* file.seek(offset)
seek(file, offset) == [file EXCEPT !.pos = offset]

\* file.read(): what lies between the position and the end of the file
read(file) ==
    IF file.pos >= Len(file.content) THEN << >>
    ELSE SubSeq(file.content, file.pos + 1, Len(file.content))

\* file.truncate(): cuts the file at the position
truncate(file) ==
    [file EXCEPT !.content = SubSeq(file.content, 1, file.pos)]

\* file.write(text) at the position (which is the end here)
write(file, text) ==
    [content |-> SubSeq(file.content, 1, file.pos) \o text,
     pos |-> file.pos + Len(text)]

\* restrict_log_size(config_name): log is the file on the disk, if any
restrict_log_size(log) ==
    IF log = Absent THEN log
    ELSE LET size == Len(log[1])
         IN  IF size > MAX_LOG_FILE_SIZE
             THEN LET opened == open_w_plus(log[1])
                      content == read(seek(opened, size - MAX_LOG_FILE_SIZE))
                  IN  Some(write(truncate(seek(opened, 0)), content).content)
             ELSE log

\* init_log(config_name): open(..., 'a+') creates the file when it is
\* missing; the session mark is appended
init_log ==
    /\ last' = [op |-> "init_log", before |-> last.log,
                log |-> LET r == restrict_log_size(last.log)
                        IN  Some((IF r = Absent THEN << >> ELSE r[1])
                                 \o <<START_SESSION_MARK>>)]
    /\ UNCHANGED <<fs, ca, latest, apps, lockOwner, proc, run>>

\* the server writes to the log of the session
LogBytes == {"x", "y"}

log_write(byte) ==
    /\ last.log # Absent
    /\ Len(last.log[1]) < MaxLog
    /\ last' = [op |-> "write", before |-> last.log,
                log |-> Some(last.log[1] \o <<byte>>)]
    /\ UNCHANGED <<fs, ca, latest, apps, lockOwner, proc, run>>

LogInit ==
    /\ fs = EmptyFn
    /\ ca = EmptyFn
    /\ latest = 1
    /\ apps = AppsAtStart
    /\ run = EmptyFn
    /\ lockOwner = EmptyFn
    /\ proc = EmptyFn
    /\ last = [op |-> "none", before |-> Absent, log |-> Absent]

LogNext ==
    \/ init_log
    \/ \E byte \in LogBytes : log_write(byte)

LogSpec == LogInit /\ [][LogNext]_vars

\* C30: init_log leaves a log of at most MAX_LOG_FILE_SIZE bytes as it is
\* and cuts a larger one down to its last MAX_LOG_FILE_SIZE bytes, then
\* appends the session mark: the log never exceeds the limit plus the mark
\* and ends with the most recent previous content.
C30_LogKeepsTail ==
    last.op = "init_log" =>
        LET old == IF last.before = Absent THEN << >> ELSE last.before[1]
            kept == IF Len(old) <= MAX_LOG_FILE_SIZE THEN old
                    ELSE SubSeq(old, Len(old) - MAX_LOG_FILE_SIZE + 1, Len(old))
        IN  /\ last.log = Some(kept \o <<START_SESSION_MARK>>)
            /\ Len(last.log[1]) <= MAX_LOG_FILE_SIZE + 1
====
